---- MODULE Spec2Model ----
(***************************************************************************)
(* Model of the Cerberus scraper service (lib/services/cerberus-scraper)   *)
(* of imr-monthly-report: the session store (ensureAuthenticated), the     *)
(* dual-period extraction (scrapeCerebusComplete) and the currency parser. *)
(*                                                                         *)
(* Time is counted in units of half an hour (the greatest common unit of   *)
(* the 12 h validation window and the 30 min browser session timeout).     *)
(* Amounts are exact rationals [n, d]; IEEE rounding of the JavaScript     *)
(* doubles is not modelled.  d = 0 encodes the non-finite doubles: n = 0   *)
(* is NaN, n = 1 is +Infinity, n = -1 is -Infinity.                        *)
(* Text is a sequence of one-character strings.                            *)
(***************************************************************************)
EXTENDS Integers, Sequences, FiniteSets, TLC

\* ---------------------------------------------------------------- bounds
MaxCalls == 3
MaxTicks == 2
MaxEls == 2
MaxFleets == 3
MaxRuns == 2
MaxMembers == 2

\* ------------------------------------------------------ program constants
UnitsPerHour == 2
SESSION_VALIDITY_HOURS == 12
SESSION_TIMEOUT == 1
PERIOD_SELECTION_WAIT == 3000
\* mutant: the budget is read from the first key-metric element
imrGoalIndex_Zero == 1 - 1

imrGoalIndex == 1
ytdSpendIndex == 1

\* ------------------------------------------------------------- rationals
Abs(x) == IF x < 0 THEN -x ELSE x

RECURSIVE Gcd(_, _)
Gcd(a, b) == IF b = 0 THEN a ELSE Gcd(b, a % b)

NaN == [n |-> 0, d |-> 0]

IsNaN(x) == x.d = 0 /\ x.n = 0

IsFinite(x) == x.d > 0

Sign(k) == IF k > 0 THEN 1 ELSE IF k < 0 THEN -1 ELSE 0

Rat(a, b) ==
  IF b = 0 THEN [n |-> Sign(a), d |-> 0]
  ELSE LET g == Gcd(Abs(a), Abs(b))
           s == IF b < 0 THEN -1 ELSE 1
       IN [n |-> s * (a \div g), d |-> s * (b \div g)]

Num(k) == [n |-> k, d |-> 1]

\* x * y of two doubles
RMul(x, y) ==
  IF IsNaN(x) \/ IsNaN(y) THEN NaN
  ELSE IF ~IsFinite(x) \/ ~IsFinite(y)
       THEN [n |-> Sign(x.n) * Sign(y.n), d |-> 0]
  ELSE LET g1 == Gcd(Abs(x.n), y.d)
           g2 == Gcd(Abs(y.n), x.d)
       IN Rat((x.n \div g1) * (y.n \div g2), (x.d \div g2) * (y.d \div g1))

\* x / y of two doubles (0/0 is NaN, k/0 is an infinity)
RDiv(x, y) ==
  IF IsNaN(x) \/ IsNaN(y) THEN NaN
  ELSE IF ~IsFinite(y) THEN (IF IsFinite(x) THEN Num(0) ELSE NaN)
  ELSE IF ~IsFinite(x) THEN [n |-> x.n * (IF y.n < 0 THEN -1 ELSE 1), d |-> 0]
  ELSE IF y.n = 0 THEN [n |-> Sign(x.n), d |-> 0]
  ELSE RMul(x, Rat(y.d, y.n))

\* x - y of two doubles
RSub(x, y) ==
  IF IsNaN(x) \/ IsNaN(y) THEN NaN
  ELSE IF ~IsFinite(x) /\ ~IsFinite(y) THEN (IF x.n = y.n THEN NaN ELSE x)
  ELSE IF ~IsFinite(x) THEN x
  ELSE IF ~IsFinite(y) THEN [n |-> -y.n, d |-> 0]
  ELSE LET g == Gcd(x.d, y.d)
       IN Rat(x.n * (y.d \div g) - y.n * (x.d \div g), (x.d \div g) * y.d)

\* x + y of two doubles
RAdd(x, y) == RSub(x, [n |-> -y.n, d |-> y.d])

\* x > y of two doubles (false whenever a NaN is involved)
RGt(x, y) ==
  IF IsNaN(x) \/ IsNaN(y) THEN FALSE
  ELSE LET r == RSub(x, y)
       IN IF IsNaN(r) THEN FALSE ELSE r.n > 0

\* x === 0
IsZero(x) == x.d > 0 /\ x.n = 0

\* ------------------------------------------------------------------ text
Digits == {"0", "1", "2", "3", "4", "5", "6", "7", "8", "9"}

DigitVal(c) ==
  CASE c = "0" -> 0 [] c = "1" -> 1 [] c = "2" -> 2 [] c = "3" -> 3
    [] c = "4" -> 4 [] c = "5" -> 5 [] c = "6" -> 6 [] c = "7" -> 7
    [] c = "8" -> 8 [] c = "9" -> 9

toUpperCase(c) ==
  CASE c = "k" -> "K" [] c = "m" -> "M" [] c = "b" -> "B"
    [] c = "n" -> "N" [] c = "a" -> "A" [] OTHER -> c

RECURSIVE Pow10(_)
Pow10(k) == IF k = 0 THEN 1 ELSE 10 * Pow10(k - 1)

\* number of digit characters of s from position i on
RECURSIVE DigitRun(_, _)
DigitRun(s, i) ==
  IF i <= Len(s) /\ s[i] \in Digits THEN 1 + DigitRun(s, i + 1) ELSE 0

\* value of the digit characters s[i .. i+k-1]
RECURSIVE DigitsValue(_, _, _)
DigitsValue(s, i, k) ==
  IF k = 0 THEN 0 ELSE 10 * DigitsValue(s, i, k - 1) + DigitVal(s[i + k - 1])

\* JavaScript parseFloat: the longest prefix that is a decimal literal
\* ([+-] digits [. digits]); NaN when there is none.  Exponents and the
\* literal "Infinity" do not occur in the texts of this model.
parseFloat(s) ==
  LET signed == Len(s) > 0 /\ s[1] \in {"-", "+"}
      sg == IF Len(s) > 0 /\ s[1] = "-" THEN -1 ELSE 1
      i0 == IF signed THEN 2 ELSE 1
      ni == DigitRun(s, i0)
      dot == i0 + ni <= Len(s) /\ s[i0 + ni] = "."
      nf == IF dot THEN DigitRun(s, i0 + ni + 1) ELSE 0
  IN IF ni = 0 /\ nf = 0 THEN NaN
     ELSE Rat(sg * (DigitsValue(s, i0, ni) * Pow10(nf)
                    + DigitsValue(s, i0 + ni + 1, nf)), Pow10(nf))

multipliers(c) ==
  CASE c = "K" -> 1000 [] c = "M" -> 1000000 [] c = "B" -> 1000000000
    [] OTHER -> 0

parseCurrencyAmount(value) ==
  IF value = <<>> THEN Num(0)
  ELSE LET cleaned == SelectSeq(value, LAMBDA c : c \notin {"$", ",", " "})
           len == Len(cleaned)
           lastChar == IF len > 0 THEN toUpperCase(cleaned[len]) ELSE ""
       IN IF len >= 2 /\ toUpperCase(cleaned[len - 1]) = "M" /\ lastChar = "M"
          THEN RMul(parseFloat(SubSeq(cleaned, 1, len - 2)), Num(1000000))
          ELSE IF multipliers(lastChar) # 0
          THEN RMul(parseFloat(SubSeq(cleaned, 1, len - 1)),
                    Num(multipliers(lastChar)))
          ELSE LET p == parseFloat(cleaned)
               IN IF IsNaN(p) \/ IsZero(p) THEN Num(0) ELSE p


\* ------------------------------------------------------------ environment
T_236MM == <<"$", "2", ".", "3", "6", "M", "M">>
T_1509K == <<"$", "1", "5", "0", ".", "9", "K">>
T_NA == <<"N", "/", "A">>
T_Zero == <<"$", "0">>

\* textContent of the elements a page.$$ query can return
ElementLists ==
  UNION {[1..k -> {<<>>, T_236MM, T_1509K, T_NA, T_Zero}] : k \in 0..MaxEls}

NoAuth == [path |-> "none"]

\* new Date(): calendar year and month (1..12) of the run
Dates == [year : {2026}, month : {1, 2, 12}]

NoFile == -1
NoValue == -1

\* errors thrown by the browser automation layer
TimeoutError == [message |-> <<"Navigation timeout exceeded">>]
ProtocolError == [message |-> <<"Protocol error">>]

\* mutant: the wrapper drops the step prefix
WrapError_NoPrefix(prefix, error) == error

\* new Error(`${prefix}: ${error.message}`)
WrapError(prefix, error) == [message |-> <<prefix>> \o error.message]

NoResult == [kind |-> "none"]

VARIABLES
  now,              \* Date.now(), in half hours
  ticks,            \* number of clock advances so far
  tsFile,           \* content of .browser-session/.last-validated, or NoFile
  browser,          \* module-level browser: "null", "connected", "disconnected"
  sessionStartTime, \* module-level sessionStartTime
  pc,               \* position of the single thread of control
  calls,            \* calls of scrapeCerebusComplete made so far
  fleetId,          \* argument of the current call
  page,             \* page of the current call: "none", "open", "closed"
  view,             \* period view the page displays
  waited,           \* milliseconds waited since the last period click
  lastValidated,    \* ensureAuthenticated: parsed timestamp, NoValue if not read
  auth,             \* record of the current ensureAuthenticated call
  prevAuth,         \* record of the latest earlier call that validated
  steps,            \* operations completed by the current call, in order
  buttons,          \* selectPeriodByText: texts of the period buttons found
  elements,         \* extractIMRGoal / extractYTDSpend: the elements found
  imrGoalText, imrGoal, fleetName, ytdSpendText, ytdSpend,
  fleetNameElements, \* the strong elements found for the fleet name
  result            \* outcome of the current call: record, error or none

\* the batch scripts of src/scripts: the process that loops over FLEET_IDS
VARIABLES
  script,           \* the script the process runs, "none" for a library caller
  runs,             \* processes started so far
  reportDate,       \* module-level today / reportDate of the script
  FLEET_IDS,        \* module-level FLEET_IDS
  bpc,              \* position of the script
  loopI,            \* the loop variable i
  results,          \* const results = []
  reportsDir,       \* files of reports/<reportDate>, name -> content
  delays,           \* inter-fleet delays slept so far
  openPages,        \* pages of the browser that are open
  exitCode,         \* argument of process.exit, NoValue while running
  exits             \* outcome and exit code of every process that has exited

batchVars == <<script, runs, reportDate, FLEET_IDS, bpc, loopI, results,
               reportsDir, delays, openPages, exitCode, exits>>

scraperVars == <<now, ticks, tsFile, browser, sessionStartTime, pc, calls,
                 fleetId, page, view, waited, lastValidated, auth, prevAuth,
                 steps, buttons, elements, imrGoalText, imrGoal, fleetName,
                 ytdSpendText, ytdSpend, fleetNameElements, result>>

\* the functions of the forecast calculator and of the forecast service,
\* called on their own
VARIABLES
  call,             \* the latest call: function, arguments, what it read from
                    \* its environment (clock, random draws), and its output
  prev              \* the call before it when the latest call repeats it

calcVars == <<call, prev>>

vars == <<scraperVars, batchVars, calcVars>>

sessionVars == <<tsFile, lastValidated, auth, prevAuth>>
browserVars == <<browser, sessionStartTime>>
clockVars == <<now, ticks>>
pageVars == <<page, view, waited>>
dataVars == <<buttons, elements, imrGoalText, imrGoal, fleetName,
              ytdSpendText, ytdSpend, fleetNameElements>>

ScraperInit ==
  /\ now = 0 /\ ticks = 0
  /\ tsFile = NoFile
  /\ browser = "null" /\ sessionStartTime = 0
  /\ pc = "idle" /\ calls = 0 /\ fleetId = ""
  /\ page = "none" /\ view = "none" /\ waited = 0
  /\ lastValidated = NoValue
  /\ auth = NoAuth /\ prevAuth = NoAuth
  /\ steps = <<>>
  /\ buttons = <<>> /\ elements = <<>>
  /\ imrGoalText = <<>> /\ imrGoal = NaN /\ fleetName = <<>>
  /\ fleetNameElements = <<>>
  /\ ytdSpendText = <<>> /\ ytdSpend = NaN
  /\ result = NoResult

\* no script has been started: the scraper is called as a library
BatchIdle ==
  /\ script = "none" /\ runs = 0 /\ reportDate = [year |-> 0, month |-> 0]
  /\ FLEET_IDS = <<>>
  /\ bpc = "none" /\ loopI = 0 /\ results = <<>>
  /\ reportsDir = <<>>
  /\ delays = 0 /\ openPages = 0
  /\ exitCode = NoValue /\ exits = {}

NoCall == [fn |-> "none"]

\* no function has been called on its own
CalcIdle == call = NoCall /\ prev = NoCall

Init == ScraperInit /\ BatchIdle /\ CalcIdle

\* the clock advances between calls and while the operator is awaited:
\* Date.now() moves by half an hour or by a whole validation window
Tick ==
  /\ pc \in {"idle", "promptManualLogin"}
  /\ ticks < MaxTicks
  /\ \E d \in {1, SESSION_VALIDITY_HOURS * UnitsPerHour} : now' = now + d
  /\ ticks' = ticks + 1
  /\ UNCHANGED <<calcVars, batchVars,
                 sessionVars, browserVars, pc, calls, fleetId,
                 pageVars,
                 steps, dataVars, result>>

\* the browser process dies or its window is closed by the operator
BrowserDisconnect ==
  /\ pc = "idle" /\ browser = "connected"
  /\ browser' = "disconnected"
  /\ UNCHANGED <<calcVars, batchVars, clockVars,
                 sessionVars, sessionStartTime, pc, calls, fleetId,
                 pageVars, steps, dataVars, result>>

\* a caller invokes scrapeCerebusComplete(fleetId, cerberusBaseUrl)
Call ==
  /\ pc = "idle" /\ calls < MaxCalls
  /\ \E f \in {"8304669", "8305082"} : fleetId' = f
  /\ calls' = calls + 1
  /\ pc' = "initBrowser"
  /\ UNCHANGED <<calcVars, batchVars, clockVars,
                 sessionVars, browserVars, pageVars, steps,
                 dataVars, result>>

\* the thrown error leaves scrapeCerebusComplete before its try block
ThrowOutside(error) ==
  /\ result' = [kind |-> "error", error |-> error]
  /\ pc' = "returned"

\* the thrown error is caught, rethrown and the finally block runs next
ThrowInside(error) ==
  /\ result' = [kind |-> "error", error |-> error]
  /\ pc' = "finally"

initBrowser ==
  /\ pc = "initBrowser"
  /\ \/ /\ browser = "connected"
        /\ now - sessionStartTime < SESSION_TIMEOUT
        /\ pc' = "createPage"
        /\ UNCHANGED <<browserVars, result>>
     \/ /\ ~(browser = "connected" /\ now - sessionStartTime < SESSION_TIMEOUT)
        /\ LET stale == browser # "null"
                        /\ now - sessionStartTime < SESSION_TIMEOUT
           IN \/ /\ browser' = "connected"
                 /\ sessionStartTime' = now
                 /\ pc' = "createPage"
                 /\ UNCHANGED result
              \/ /\ browser' = IF stale THEN "null" ELSE browser
                 /\ UNCHANGED sessionStartTime
                 /\ ThrowOutside(ProtocolError)
  /\ UNCHANGED <<calcVars, batchVars, clockVars,
                 sessionVars, calls, fleetId, pageVars, steps,
                 dataVars>>

\* createPage: browser.newPage()
createPage ==
  /\ pc = "createPage"
  /\ \/ /\ page' = "open"
        /\ pc' = "configPage"
        /\ UNCHANGED result
     \/ /\ ThrowOutside(ProtocolError)
        /\ UNCHANGED page
  /\ UNCHANGED <<calcVars, batchVars, clockVars,
                 sessionVars, browserVars, calls, fleetId, view,
                 waited, steps, dataVars>>

\* createPage: the viewport, timeout and user agent settings of the new page
configPage ==
  /\ pc = "configPage"
  /\ \/ /\ pc' = "ensureAuthenticated"
        /\ UNCHANGED result
     \/ ThrowOutside(ProtocolError)
  /\ UNCHANGED <<calcVars, batchVars,
                 clockVars, sessionVars, browserVars, calls, fleetId,
                 pageVars, steps, dataVars>>

\* ---------------------------------------------------------- session store
AuthEntry(t, ts, fault) ==
  [enter |-> t,          \* Date.now() when the timestamp was examined
   ts |-> ts,            \* content of the timestamp file at that moment
   fault |-> fault,      \* stat/readFile failed although the file exists
   path |-> "pending",   \* "cached", "loggedIn", "manual" once decided
   checks |-> 0,         \* isLoggedIn invocations (one navigation each)
   prompts |-> 0,        \* promptManualLogin invocations
   keypress |-> FALSE,   \* the operator's confirmation was received
   threw |-> FALSE,      \* the login-check navigation threw
   validatedAt |-> NoValue,  \* Date.now() when the session was validated
   wrote |-> FALSE]      \* the timestamp was written by this call

\* mutant: the window comparison includes its upper end
Fresh_OffByOne(ts, t) ==
  ts # NoValue /\ t - ts <= SESSION_VALIDITY_HOURS * UnitsPerHour

Fresh(ts, t) ==
  ts # NoValue /\ t - ts < SESSION_VALIDITY_HOURS * UnitsPerHour

\* ensureAuthenticated, lines 277-280: stat and read the timestamp file
ensureAuthenticatedRead ==
  /\ pc = "ensureAuthenticated"
  /\ \E fault \in BOOLEAN :
       /\ fault => tsFile # NoFile
       /\ lastValidated' = IF fault THEN NoValue ELSE tsFile
       /\ auth' = AuthEntry(now, tsFile, fault)
  /\ pc' = "authDecide"
  /\ UNCHANGED <<calcVars, batchVars, clockVars,
                 tsFile, prevAuth, browserVars, calls, fleetId,
                 pageVars, steps, dataVars, result>>

\* mutant: the cached timestamp is never trusted (the code before the fix)
ensureAuthenticatedDecide_AlwaysCheck ==
  /\ pc = "authDecide"
  /\ pc' = "isLoggedIn"
  /\ auth' = [auth EXCEPT !.checks = @ + 1]
  /\ UNCHANGED <<calcVars, batchVars, clockVars,
                 tsFile, lastValidated, prevAuth, browserVars,
                 calls, fleetId, pageVars, steps, dataVars, result>>

\* mutant: the short-circuit path refreshes the timestamp (sliding window)
ensureAuthenticatedDecide_Refresh ==
  /\ pc = "authDecide"
  /\ IF Fresh(lastValidated, now)
     THEN /\ pc' = "pageGoto"
          /\ auth' = [auth EXCEPT !.path = "cached"]
          /\ tsFile' = now
          /\ steps' = Append(steps, "ensureAuthenticated")
     ELSE /\ pc' = "isLoggedIn"
          /\ auth' = [auth EXCEPT !.checks = @ + 1]
          /\ UNCHANGED <<steps, tsFile>>
  /\ UNCHANGED <<calcVars, batchVars, clockVars,
                 lastValidated, prevAuth, browserVars, calls,
                 fleetId, pageVars, dataVars, result>>

\* ensureAuthenticated, lines 281-295: use the cached session or go on
ensureAuthenticatedDecide ==
  /\ pc = "authDecide"
  /\ IF Fresh(lastValidated, now)
     THEN /\ pc' = "pageGoto"
          /\ auth' = [auth EXCEPT !.path = "cached"]
          /\ steps' = Append(steps, "ensureAuthenticated")
     ELSE /\ pc' = "isLoggedIn"
          /\ auth' = [auth EXCEPT !.checks = @ + 1]
          /\ UNCHANGED steps
  /\ UNCHANGED <<calcVars, batchVars, clockVars,
                 tsFile, lastValidated, prevAuth, browserVars,
                 calls, fleetId, pageVars, dataVars, result>>

\* isLoggedIn: navigate and probe the markers; every error is caught and
\* reported as "not logged in"
isLoggedIn ==
  /\ pc = "isLoggedIn"
  /\ \E threw \in BOOLEAN, dashboard \in BOOLEAN, loginForm \in BOOLEAN :
       LET loggedIn == ~threw /\ dashboard
       IN /\ threw => ~dashboard /\ ~loginForm
          /\ view' = IF threw THEN view ELSE "default"
          /\ auth' = [auth EXCEPT !.threw = threw,
                                  !.path = IF loggedIn THEN "loggedIn"
                                           ELSE "manual"]
          /\ pc' = IF loggedIn THEN "loggedInWrite" ELSE "promptManualLogin"
  /\ UNCHANGED <<calcVars, batchVars, clockVars,
                 tsFile, lastValidated, prevAuth, browserVars,
                 calls, fleetId, page, waited, steps, dataVars, result>>

\* mutant: a failed write of the timestamp is thrown to the caller
WriteTimestamp_Fatal ==
  /\ \E ok \in BOOLEAN :
       /\ tsFile' = IF ok THEN now ELSE tsFile
       /\ auth' = [auth EXCEPT !.wrote = ok, !.validatedAt = now]
       /\ IF ok
          THEN /\ steps' = Append(steps, "ensureAuthenticated")
               /\ pc' = "pageGoto"
               /\ UNCHANGED result
          ELSE /\ ThrowInside([message |-> <<"EACCES: permission denied">>])
               /\ UNCHANGED steps
  /\ UNCHANGED <<calcVars, batchVars, clockVars,
                 lastValidated, prevAuth, browserVars, calls,
                 fleetId, pageVars, dataVars>>

\* fs.mkdir + fs.writeFile(timestampFile, Date.now()); a failure is only
\* warned about, and ensureAuthenticated returns
WriteTimestamp ==
  /\ \E ok \in BOOLEAN :
       /\ tsFile' = IF ok THEN now ELSE tsFile
       /\ auth' = [auth EXCEPT !.wrote = ok, !.validatedAt = now]
  /\ steps' = Append(steps, "ensureAuthenticated")
  /\ pc' = "pageGoto"
  /\ UNCHANGED <<calcVars, batchVars, clockVars,
                 lastValidated, prevAuth, browserVars, calls,
                 fleetId, pageVars, dataVars, result>>

\* ensureAuthenticated, lines 297-306
loggedInWrite ==
  /\ pc = "loggedInWrite"
  /\ WriteTimestamp

\* mutant: the wait for the operator resolves by itself
promptManualLogin_Timeout ==
  /\ pc = "promptManualLogin"
  /\ auth.prompts = 0
  /\ auth' = [auth EXCEPT !.prompts = 1]
  /\ pc' = "manualWrite"
  /\ UNCHANGED <<calcVars, batchVars, clockVars,
                 tsFile, lastValidated, prevAuth, browserVars,
                 calls, fleetId, pageVars, steps, dataVars, result>>

\* promptManualLogin is entered: the banner is printed, the stdin listener set
promptManualLogin ==
  /\ pc = "promptManualLogin"
  /\ auth.prompts = 0
  /\ auth' = [auth EXCEPT !.prompts = 1]
  /\ UNCHANGED <<calcVars, batchVars, clockVars,
                 tsFile, lastValidated, prevAuth, browserVars, pc,
                 calls, fleetId, pageVars, steps, dataVars, result>>

\* the operator presses Enter: the promise of promptManualLogin resolves
OperatorKeypress ==
  /\ pc = "promptManualLogin"
  /\ auth.prompts = 1
  /\ auth' = [auth EXCEPT !.keypress = TRUE]
  /\ pc' = "manualWrite"
  /\ UNCHANGED <<calcVars, batchVars, clockVars,
                 tsFile, lastValidated, prevAuth, browserVars,
                 calls, fleetId, pageVars, steps, dataVars, result>>

\* ensureAuthenticated, lines 310-317
manualWrite ==
  /\ pc = "manualWrite"
  /\ WriteTimestamp

\* ------------------------------------------------------ extraction driver
\* summary of a finished ensureAuthenticated call that validated the session
Validation(a) ==
  [path |-> "validated", validatedAt |-> a.validatedAt, wrote |-> a.wrote]

\* page.goto(fleetUrl) and the 2 s render wait, lines 557-558;
\* ensureAuthenticated has returned and its locals are gone
pageGoto ==
  /\ pc = "pageGoto"
  /\ lastValidated' = NoValue
  /\ auth' = NoAuth
  /\ prevAuth' = IF auth.path \in {"loggedIn", "manual"} THEN Validation(auth)
                 ELSE prevAuth
  /\ \/ /\ view' = "default" /\ waited' = 0
        /\ steps' = Append(steps, "goto")
        /\ pc' = "selectFullYear"
        /\ UNCHANGED result
     \/ /\ ThrowInside(TimeoutError)
        /\ UNCHANGED <<view, waited, steps>>
  /\ UNCHANGED <<calcVars, batchVars, clockVars,
                 tsFile, browserVars, calls, fleetId, page,
                 dataVars>>

SelectPrefix(periodText) ==
  IF periodText = "Full Year" THEN "Failed to select period \"Full Year\""
  ELSE "Failed to select period \"Year to Date\""

HasButton(bs, periodText) == \E i \in DOMAIN bs : bs[i] = periodText

\* selectPeriodByText up to the click, lines 404-429
SelectClick(periodText, here, settle) ==
  /\ pc = here
  /\ \/ \E bs \in {<<>>, <<"Full Year", "Year to Date">>,
                    <<"Year to Date">>, <<"Full Year">>,
                    <<"Month to Date">>} :
          /\ buttons' = bs
          /\ IF bs = <<>>
             THEN /\ ThrowInside(WrapError(SelectPrefix(periodText),
                        [message |-> <<"No period selector buttons found">>]))
                  /\ UNCHANGED <<view, waited>>
             ELSE IF ~HasButton(bs, periodText)
             THEN /\ ThrowInside(WrapError(SelectPrefix(periodText),
                        [message |-> <<"Period button not found">>]))
                  /\ UNCHANGED <<view, waited>>
             ELSE \/ /\ view' = periodText /\ waited' = 0
                     /\ pc' = settle
                     /\ UNCHANGED result
                  \/ /\ ThrowInside(WrapError(SelectPrefix(periodText),
                                              ProtocolError))
                     /\ UNCHANGED <<view, waited>>
     \/ /\ ThrowInside(WrapError(SelectPrefix(periodText), ProtocolError))
        /\ UNCHANGED <<buttons, view, waited>>
  /\ UNCHANGED <<calcVars, batchVars, clockVars,
                 sessionVars, browserVars, calls, fleetId, page,
                 steps, elements, imrGoalText, imrGoal, fleetName,
                 fleetNameElements,
                 ytdSpendText, ytdSpend>>

\* mutant: the period is selected without the wait for the data reload
SelectSettle_NoWait(periodText, here, next) ==
  /\ pc = here
  /\ waited' = 0
  /\ buttons' = <<>>
  /\ steps' = Append(steps, "select " \o periodText)
  /\ pc' = next
  /\ UNCHANGED <<calcVars, batchVars, clockVars,
                 sessionVars, browserVars, calls, fleetId, page,
                 view, elements, imrGoalText, imrGoal, fleetName,
                 fleetNameElements,
                 ytdSpendText, ytdSpend, result>>

\* selectPeriodByText after the click: the fixed wait, lines 431-434
SelectSettle(periodText, here, next) ==
  /\ pc = here
  /\ waited' = PERIOD_SELECTION_WAIT
  /\ buttons' = <<>>
  /\ steps' = Append(steps, "select " \o periodText)
  /\ pc' = next
  /\ UNCHANGED <<calcVars, batchVars, clockVars,
                 sessionVars, browserVars, calls, fleetId, page,
                 view, elements, imrGoalText, imrGoal, fleetName,
                 fleetNameElements,
                 ytdSpendText, ytdSpend, result>>

selectFullYear == SelectClick("Full Year", "selectFullYear", "settleFullYear")

settleFullYear == SelectSettle("Full Year", "settleFullYear", "extractIMRGoal")

\* mutant: extractIMRGoal without the test of lines 463-465
extractIMRGoal_ZeroPasses ==
  /\ pc = "extractIMRGoal"
  /\ \/ \E els \in ElementLists :
          /\ elements' = els
          /\ IF Len(els) < 2
             THEN /\ ThrowInside(WrapError("Failed to extract IMR Goal",
                        [message |-> <<"Expected at least 2 .awsui-key-children elements">>]))
                  /\ UNCHANGED <<imrGoalText, imrGoal, steps>>
             ELSE LET text == els[imrGoalIndex + 1]
                      goal == parseCurrencyAmount(text)
                  IN /\ imrGoalText' = text
                     /\ IF text = <<>>
                        THEN /\ ThrowInside(WrapError("Failed to extract IMR Goal",
                                   [message |-> <<"IMR Goal text is empty">>]))
                             /\ UNCHANGED <<imrGoal, steps>>
                        ELSE /\ imrGoal' = goal
                             /\ steps' = Append(steps, "extractIMRGoal")
                             /\ pc' = "fleetName"
                             /\ UNCHANGED result
     \/ /\ ThrowInside(WrapError("Failed to extract IMR Goal", ProtocolError))
        /\ UNCHANGED <<elements, imrGoalText, imrGoal, steps>>
  /\ UNCHANGED <<calcVars, batchVars,
                 clockVars, sessionVars, browserVars, calls, fleetId,
                 pageVars, buttons, fleetName, fleetNameElements,
                 ytdSpendText, ytdSpend>>

\* extractIMRGoal, lines 444-472
extractIMRGoal ==
  /\ pc = "extractIMRGoal"
  /\ \/ \E els \in ElementLists :
          /\ elements' = els
          /\ IF Len(els) < 2
             THEN /\ ThrowInside(WrapError("Failed to extract IMR Goal",
                        [message |-> <<"Expected at least 2 .awsui-key-children elements">>]))
                  /\ UNCHANGED <<imrGoalText, imrGoal, steps>>
             ELSE LET text == els[imrGoalIndex + 1]
                      goal == parseCurrencyAmount(text)
                  IN /\ imrGoalText' = text
                     /\ IF text = <<>>
                        THEN /\ ThrowInside(WrapError("Failed to extract IMR Goal",
                                   [message |-> <<"IMR Goal text is empty">>]))
                             /\ UNCHANGED <<imrGoal, steps>>
                        ELSE IF IsZero(goal)
                        THEN /\ ThrowInside(WrapError("Failed to extract IMR Goal",
                                   [message |-> <<"Failed to parse IMR Goal from text">>]))
                             /\ UNCHANGED <<imrGoal, steps>>
                        ELSE /\ imrGoal' = goal
                             /\ steps' = Append(steps, "extractIMRGoal")
                             /\ pc' = "fleetName"
                             /\ UNCHANGED result
     \/ /\ ThrowInside(WrapError("Failed to extract IMR Goal", ProtocolError))
        /\ UNCHANGED <<elements, imrGoalText, imrGoal, steps>>
  /\ UNCHANGED <<calcVars, batchVars,
                 clockVars, sessionVars, browserVars, calls, fleetId,
                 pageVars, buttons, fleetName, fleetNameElements,
                 ytdSpendText, ytdSpend>>

\* `Fleet ${fleetId}`, line 573
FleetLabel_Bare(id) == <<"Fleet ">>

FleetLabel(id) == <<"Fleet ", id>>

\* the fleet name, lines 569-575 (the elements of extractIMRGoal are gone)
extractFleetName ==
  /\ pc = "fleetName"
  /\ elements' = <<>>
  /\ \/ /\ \E names \in {<<>>, <<"(F6) Planning Automation And Optimization">>} :
             /\ fleetNameElements' = names
             /\ fleetName' = IF Len(names) > 0 THEN <<names[1]>>
                             ELSE FleetLabel(fleetId)
        /\ steps' = Append(steps, "fleetName")
        /\ pc' = "selectYearToDate"
        /\ UNCHANGED result
     \/ /\ ThrowInside(ProtocolError)
        /\ UNCHANGED <<fleetName, fleetNameElements, steps>>
  /\ UNCHANGED <<calcVars, batchVars,
                 clockVars, sessionVars, browserVars, calls, fleetId,
                 pageVars, buttons, imrGoalText, imrGoal, ytdSpendText,
                 ytdSpend>>

selectYearToDate ==
  SelectClick("Year to Date", "selectYearToDate", "settleYearToDate")

settleYearToDate ==
  SelectSettle("Year to Date", "settleYearToDate", "extractYTDSpend")

\* extractYTDSpend with the zero test of extractIMRGoal
extractYTDSpend_ZeroThrows ==
  /\ pc = "extractYTDSpend"
  /\ \/ \E els \in ElementLists :
          /\ elements' = els
          /\ IF Len(els) < 2
             THEN /\ ThrowInside(WrapError("Failed to extract YTD Spend",
                        [message |-> <<"Expected at least 2 .mus-cell-right-aligned elements">>]))
                  /\ UNCHANGED <<ytdSpendText, ytdSpend, steps>>
             ELSE LET text == els[ytdSpendIndex + 1]
                  IN /\ ytdSpendText' = text
                     /\ IF text = <<>>
                        THEN /\ ThrowInside(WrapError("Failed to extract YTD Spend",
                                   [message |-> <<"YTD Spend text is empty">>]))
                             /\ UNCHANGED <<ytdSpend, steps>>
                        ELSE IF IsZero(parseCurrencyAmount(text))
                        THEN /\ ThrowInside(WrapError("Failed to extract YTD Spend",
                                   [message |-> <<"Failed to parse YTD Spend from text">>]))
                             /\ UNCHANGED <<ytdSpend, steps>>
                        ELSE /\ ytdSpend' = parseCurrencyAmount(text)
                             /\ steps' = Append(steps, "extractYTDSpend")
                             /\ pc' = "compute"
                             /\ UNCHANGED result
     \/ /\ ThrowInside(WrapError("Failed to extract YTD Spend", ProtocolError))
        /\ UNCHANGED <<elements, ytdSpendText, ytdSpend, steps>>
  /\ UNCHANGED <<calcVars, batchVars,
                 clockVars, sessionVars, browserVars, calls, fleetId,
                 pageVars, buttons, imrGoalText, imrGoal, fleetName,
                 fleetNameElements>>

\* extractYTDSpend, lines 478-506
extractYTDSpend ==
  /\ pc = "extractYTDSpend"
  /\ \/ \E els \in ElementLists :
          /\ elements' = els
          /\ IF Len(els) < 2
             THEN /\ ThrowInside(WrapError("Failed to extract YTD Spend",
                        [message |-> <<"Expected at least 2 .mus-cell-right-aligned elements">>]))
                  /\ UNCHANGED <<ytdSpendText, ytdSpend, steps>>
             ELSE LET text == els[ytdSpendIndex + 1]
                  IN /\ ytdSpendText' = text
                     /\ IF text = <<>>
                        THEN /\ ThrowInside(WrapError("Failed to extract YTD Spend",
                                   [message |-> <<"YTD Spend text is empty">>]))
                             /\ UNCHANGED <<ytdSpend, steps>>
                        ELSE /\ ytdSpend' = parseCurrencyAmount(text)
                             /\ steps' = Append(steps, "extractYTDSpend")
                             /\ pc' = "compute"
                             /\ UNCHANGED result
     \/ /\ ThrowInside(WrapError("Failed to extract YTD Spend", ProtocolError))
        /\ UNCHANGED <<elements, ytdSpendText, ytdSpend, steps>>
  /\ UNCHANGED <<calcVars, batchVars,
                 clockVars, sessionVars, browserVars, calls, fleetId,
                 pageVars, buttons, imrGoalText, imrGoal, fleetName,
                 fleetNameElements>>

\* the count without the wrap of January: the month before, 0 in January
calculateMonthsElapsed_NoWrap(today) == today.month - 1

\* calculateMonthsElapsed, lines 515-538 (today is the date it reads)
calculateMonthsElapsed(today) ==
  LET reportingMonth == today.month - 1
  IN IF reportingMonth = 0 THEN 12 ELSE reportingMonth

\* the metrics of scrapeCerebusComplete, lines 587-638
CompleteData(fid, name, goal, spend, today) ==
  LET fiscalYear == today.year
      monthsElapsed == calculateMonthsElapsed(today)
      monthlyBurnRate == RDiv(spend, Num(monthsElapsed))
      projectedEOY == RMul(monthlyBurnRate, Num(12))
      variance == RSub(goal, projectedEOY)
  IN [fleetId |-> fid,
      fleetName |-> name,
      fiscalYear |-> fiscalYear,
      imrGoal |-> goal,
      ytdSpend |-> spend,
      ytdPeriodEnd |-> today,
      monthsElapsed |-> monthsElapsed,
      monthsRemaining |-> 12 - monthsElapsed,
      monthlyBurnRate |-> monthlyBurnRate,
      projectedEOY |-> projectedEOY,
      variance |-> variance,
      variancePercent |-> RMul(RDiv(variance, goal), Num(100)),
      percentComplete |-> RMul(RDiv(spend, goal), Num(100)),
      isOverBudget |-> RGt(projectedEOY, goal)]

\* lines 584-638 (the elements of extractYTDSpend are gone)
compute ==
  /\ pc = "compute"
  /\ elements' = <<>>
  /\ \E today \in Dates :
       result' = [kind |-> "data",
                  data |-> CompleteData(fleetId, fleetName, imrGoal, ytdSpend,
                                        today)]
  /\ steps' = Append(steps, "compute")
  /\ pc' = "finally"
  /\ UNCHANGED <<calcVars, batchVars,
                 clockVars, sessionVars, browserVars, calls, fleetId,
                 pageVars, buttons, imrGoalText, imrGoal, fleetName,
                 fleetNameElements,
                 ytdSpendText, ytdSpend>>

\* finally { await page.close() }, lines 642-645
closePage ==
  /\ pc = "finally"
  /\ page' = "closed"
  /\ pc' = "returned"
  /\ UNCHANGED <<calcVars, batchVars, clockVars,
                 sessionVars, browserVars, calls, fleetId, view,
                 waited, steps, dataVars, result>>

\* control is back in the caller, which takes the record or the error
Return ==
  /\ pc = "returned"
  /\ pc' = "idle"
  /\ fleetId' = "" /\ page' = "none" /\ view' = "none" /\ waited' = 0
  /\ steps' = <<>>
  /\ buttons' = <<>> /\ elements' = <<>>
  /\ imrGoalText' = <<>> /\ imrGoal' = NaN /\ fleetName' = <<>>
  /\ fleetNameElements' = <<>>
  /\ ytdSpendText' = <<>> /\ ytdSpend' = NaN
  /\ result' = NoResult
  /\ UNCHANGED <<calcVars, batchVars,
                 clockVars, sessionVars, browserVars, calls>>

Next ==
  \/ Tick \/ BrowserDisconnect \/ Call
  \/ initBrowser \/ createPage \/ configPage
  \/ ensureAuthenticatedRead \/ ensureAuthenticatedDecide \/ isLoggedIn
  \/ loggedInWrite \/ promptManualLogin \/ OperatorKeypress \/ manualWrite
  \/ pageGoto \/ selectFullYear \/ settleFullYear \/ extractIMRGoal
  \/ extractFleetName \/ selectYearToDate \/ settleYearToDate
  \/ extractYTDSpend \/ compute \/ closePage \/ Return

Spec == Init /\ [][Next]_vars


\* ----------------------------------------------------------- batch scripts
\* src/scripts/test-scraper.js: the monthly report generator (lines 568-838)
\* and the scraping test (lines 227-352).  Both loop over FLEET_IDS and await
\* scrapeCerebusComplete once per fleet; the call is taken here in three
\* steps (page creation, page configuration, the try block with its finally)
\* whose outcomes are those of the scraper above.
Monthly == script = "scrape-monthly-report"

DefaultFleetIds ==
  <<"8304669", "8305082", "8304674", "10089347", "8967127", "3046715">>

\* the days on which the script is run: in February and in December
BatchDates == {d \in Dates : d.month > 1}

\* what scrapeCerebusComplete returns for a fleet on the day of the run
ScrapedData(fid, today) ==
  {CompleteData(fid, FleetLabel(fid), g, s, today) :
     g \in {parseCurrencyAmount(T_236MM)},
     s \in {parseCurrencyAmount(T_1509K), parseCurrencyAmount(T_236MM)}}

\* fs.writeFile rejects
WriteError == [message |-> <<"ENOSPC: no space left on device, write">>]

\* the success record of the monthly report, lines 627-643
FleetResult(data) ==
  [fleetId |-> data.fleetId,
   fleetName |-> data.fleetName,
   reportDate |-> reportDate,
   fiscalYear |-> data.fiscalYear,
   imrGoal |-> data.imrGoal,
   ytdSpend |-> data.ytdSpend,
   monthsElapsed |-> data.monthsElapsed,
   monthlyBurnRate |-> data.monthlyBurnRate,
   projectedEOY |-> data.projectedEOY,
   variance |-> data.variance,
   variancePercent |-> data.variancePercent,
   percentComplete |-> data.percentComplete,
   isOverBudget |-> data.isOverBudget,
   success |-> TRUE]

\* the success record of the scraping test, lines 262-272
TestResult(fid, data) ==
  [fleetId |-> fid,
   fleetName |-> data.fleetName,
   success |-> TRUE,
   imrGoal |-> data.imrGoal,
   ytdSpend |-> data.ytdSpend,
   projectedEOY |-> data.projectedEOY,
   variance |-> data.variance,
   isOverBudget |-> data.isOverBudget]

\* the failure record, lines 663-669 (monthly report) and 286-291 (test)
FailureResult(fid, error) ==
  IF Monthly
  THEN [fleetId |-> fid, reportDate |-> reportDate, error |-> error.message,
        success |-> FALSE]
  ELSE [fleetId |-> fid, success |-> FALSE, error |-> error.message]

FleetJson(fid) == <<"fleet-", fid, ".json">>

ErrorJson(fid) == <<"fleet-", fid, "-ERROR.json">>

\* fs.writeFile(path, content) that succeeds
WriteFile(dir, name, content) ==
  [n \in DOMAIN dir \cup {name} |-> IF n = name THEN content ELSE dir[n]]


RECURSIVE RSum(_)
\* let total = 0; forEach(total += x), lines 719-727
\* (exact sums do not depend on the grouping: the additions are grouped in
\* halves, which keeps the evaluation shallow on a year of daily entries)
RSum(nums) ==
  IF Len(nums) = 0 THEN Num(0)
  ELSE IF Len(nums) = 1 THEN nums[1]
  ELSE LET half == Len(nums) \div 2
       IN RAdd(RSum(SubSeq(nums, 1, half)),
               RSum(SubSeq(nums, half + 1, Len(nums))))

\* results.filter(r => r.success), line 704
Successful(rs) == SelectSeq(rs, LAMBDA r : r.success)

\* results.filter(r => !r.success), line 705
FailedFleets(rs) == SelectSeq(rs, LAMBDA r : ~r.success)

\* the counts and the TOTALS block of summary-report.txt, lines 703-773
SummaryText(rs) ==
  LET ok == Successful(rs)
      totalIMR == RSum([k \in DOMAIN ok |-> ok[k].imrGoal])
      totalYTD == RSum([k \in DOMAIN ok |-> ok[k].ytdSpend])
      totalProjected == RSum([k \in DOMAIN ok |-> ok[k].projectedEOY])
      totalVariance == RSum([k \in DOMAIN ok |-> ok[k].variance])
  IN [totalFleets |-> Len(rs),
      successful |-> Len(ok),
      failed |-> Len(FailedFleets(rs)),
      totals |-> IF Len(ok) > 0
                 THEN <<[totalIMR |-> totalIMR,
                         totalYTD |-> totalYTD,
                         totalProjected |-> totalProjected,
                         totalVariance |-> totalVariance,
                         overBudget |-> RGt(totalProjected, totalIMR)]>>
                 ELSE <<>>]

\* the object written to summary.json, lines 775-784
SummaryJson(rs) ==
  [reportDate |-> reportDate,
   totalFleets |-> Len(rs),
   successful |-> Len(Successful(rs)),
   failed |-> Len(FailedFleets(rs)),
   fleets |-> rs]

\* failCount > 0 ? 1 : 0, lines 699-700 and 342-345
ExitCode(rs) == IF Len(FailedFleets(rs)) > 0 THEN 1 ELSE 0

\* process.exit(code); outcome tells a completed run from a fatal error
Exit(code, outcome, rs) ==
  /\ exitCode' = code
  /\ bpc' = "exited"
  /\ exits' = exits \cup {[outcome |-> outcome,
                           failed |-> Len(FailedFleets(rs)) > 0,
                           code |-> code]}

\* the state of a process of one of the scripts once its module is loaded
InitBatch ==
  /\ ScraperInit
  /\ script \in {"scrape-monthly-report", "test-cerberus-scraping"}
  /\ runs = 1
  /\ reportDate \in BatchDates
  /\ FLEET_IDS \in {SubSeq(DefaultFleetIds, 1, n) : n \in 1..MaxFleets}
  /\ bpc = "start" /\ loopI = 0 /\ results = <<>>
  /\ reportsDir = <<>>
  /\ delays = 0 /\ openPages = 0
  /\ exitCode = NoValue /\ exits = {}
  /\ CalcIdle

\* the compiled scraper must exist, lines 825-832 (monthly report only)
checkCompiled ==
  /\ bpc = "start"
  /\ \/ /\ bpc' = IF Monthly THEN "mkdir" ELSE "loop"
        /\ UNCHANGED <<exitCode, exits>>
     \/ /\ Monthly
        /\ Exit(1, "fatal", results)
  /\ UNCHANGED <<calcVars, scraperVars,
                 script, runs, reportDate, FLEET_IDS, loopI,
                 results, reportsDir, delays, openPages>>

\* fs.mkdir(reportsDir, { recursive: true }), lines 604-612
mkdirReports ==
  /\ bpc = "mkdir"
  /\ \/ /\ bpc' = "loop"
        /\ UNCHANGED <<exitCode, exits>>
     \/ Exit(1, "fatal", results)
  /\ UNCHANGED <<calcVars, scraperVars,
                 script, runs, reportDate, FLEET_IDS, loopI,
                 results, reportsDir, delays, openPages>>

\* for (let i = 0; i < FLEET_IDS.length; i++): the body is entered and
\* scrapeCerebusComplete(fleetId, CERBERUS_URL) is called, lines 614-624
callScrape ==
  /\ bpc = "loop" /\ loopI < Len(FLEET_IDS)
  /\ bpc' = "scrape"
  /\ UNCHANGED <<calcVars, scraperVars,
                 script, runs, reportDate, FLEET_IDS, loopI,
                 results, reportsDir, delays, openPages, exitCode, exits>>

\* the catch block of the loop body, lines 660-677 (monthly report) and
\* 283-295 (test): the failure is recorded and, in the monthly report, the
\* error JSON is written; a rejection of that write leaves the loop and
\* reaches the handler of line 835
CatchFleet(error) ==
  LET failure == FailureResult(FLEET_IDS[loopI + 1], error)
      rs == Append(results, failure)
  IN /\ results' = rs
     /\ IF Monthly
        THEN \/ /\ reportsDir' = WriteFile(reportsDir,
                                           ErrorJson(FLEET_IDS[loopI + 1]),
                                           failure)
                /\ bpc' = "delay"
                /\ UNCHANGED <<exitCode, exits>>
             \/ /\ Exit(1, "fatal", rs)
                /\ UNCHANGED reportsDir
        ELSE /\ bpc' = "delay"
             /\ UNCHANGED <<reportsDir, exitCode, exits>>

\* initBrowser and browser.newPage of the call, part_009 lines 548 and 162
scrapeCreatePage ==
  /\ bpc = "scrape"
  /\ \/ /\ openPages' = openPages + 1
        /\ bpc' = "page"
        /\ UNCHANGED <<results, reportsDir, exitCode, exits>>
     \/ /\ CatchFleet(ProtocolError)
        /\ UNCHANGED openPages
  /\ UNCHANGED <<calcVars, scraperVars,
                 script, runs, reportDate, FLEET_IDS, loopI,
                 delays>>

\* the configuration of the new page, part_009 lines 165-176: an error here
\* is thrown before the try block, so the page stays open
scrapeConfigPage ==
  /\ bpc = "page"
  /\ \/ /\ bpc' = "try"
        /\ UNCHANGED <<results, reportsDir, exitCode, exits>>
     \/ CatchFleet(ProtocolError)
  /\ UNCHANGED <<calcVars, scraperVars,
                 script, runs, reportDate, FLEET_IDS, loopI,
                 delays, openPages>>

\* the try block of the call with its finally (the page is closed), part_009
\* lines 551-645, and the code after the await, lines 625-645 and 259-272
scrapeTry ==
  /\ bpc = "try"
  /\ openPages' = openPages - 1
  /\ \/ \E data \in ScrapedData(FLEET_IDS[loopI + 1], reportDate) :
          /\ results' = Append(results,
                               IF Monthly THEN FleetResult(data)
                               ELSE TestResult(FLEET_IDS[loopI + 1], data))
          /\ bpc' = IF Monthly THEN "writeFleetJson" ELSE "delay"
          /\ UNCHANGED <<reportsDir, exitCode, exits>>
     \/ \E error \in {TimeoutError} : CatchFleet(error)
  /\ UNCHANGED <<calcVars, scraperVars,
                 script, runs, reportDate, FLEET_IDS, loopI,
                 delays>>

\* the record stays in memory and no file is written for the fleet
writeFleetJson_Deferred ==
  /\ bpc = "writeFleetJson"
  /\ bpc' = "delay"
  /\ UNCHANGED <<calcVars, scraperVars,
                 script, runs, reportDate, FLEET_IDS, loopI,
                 results, reportsDir, delays, openPages, exitCode, exits>>

\* fs.writeFile(fleetJsonPath, ...), lines 647-649; a rejection is caught by
\* the catch block of the loop body
writeFleetJson ==
  /\ bpc = "writeFleetJson"
  /\ \/ /\ reportsDir' = WriteFile(reportsDir, FleetJson(FLEET_IDS[loopI + 1]),
                                   results[Len(results)])
        /\ bpc' = "delay"
        /\ UNCHANGED <<results, exitCode, exits>>
     \/ CatchFleet(WriteError)
  /\ UNCHANGED <<calcVars, scraperVars,
                 script, runs, reportDate, FLEET_IDS, loopI,
                 delays, openPages>>

\* the delay that follows every fleet, the last one included
interFleetDelay_AfterLast ==
  /\ bpc = "delay"
  /\ delays' = delays + 1
  /\ loopI' = loopI + 1
  /\ bpc' = "loop"
  /\ UNCHANGED <<calcVars, scraperVars,
                 script, runs, reportDate, FLEET_IDS, results,
                 reportsDir, openPages, exitCode, exits>>

\* if (i < FLEET_IDS.length - 1) await setTimeout, then i++, lines 684-688
\* (2000 ms) and 304-307 (1000 ms)
interFleetDelay ==
  /\ bpc = "delay"
  /\ delays' = IF loopI < Len(FLEET_IDS) - 1 THEN delays + 1 ELSE delays
  /\ loopI' = loopI + 1
  /\ bpc' = "loop"
  /\ UNCHANGED <<calcVars, scraperVars,
                 script, runs, reportDate, FLEET_IDS, results,
                 reportsDir, openPages, exitCode, exits>>

\* after the loop: generateSummaryReport writes summary-report.txt and then
\* summary.json, displayConsoleSummary prints, and the process exits with
\* failCount > 0 ? 1 : 0 (lines 690-700); a write that rejects reaches the
\* handler of line 835.  The test only prints and exits (lines 309-345).
generateSummaryReport ==
  /\ bpc = "loop" /\ loopI >= Len(FLEET_IDS)
  /\ IF Monthly
     THEN \/ /\ reportsDir' =
                  WriteFile(WriteFile(reportsDir, <<"summary-report.txt">>,
                                      SummaryText(results)),
                            <<"summary.json">>, SummaryJson(results))
             /\ Exit(ExitCode(results), "completed", results)
          \/ /\ reportsDir' = WriteFile(reportsDir, <<"summary-report.txt">>,
                                        SummaryText(results))
             /\ Exit(1, "fatal", results)
          \/ /\ UNCHANGED reportsDir
             /\ Exit(1, "fatal", results)
     ELSE /\ UNCHANGED reportsDir
          /\ Exit(ExitCode(results), "completed", results)
  /\ UNCHANGED <<calcVars, scraperVars,
                 script, runs, reportDate, FLEET_IDS, loopI,
                 results, delays, openPages>>

\* the script is run again in the same environment: a new process, a new
\* browser, the reports directory of its own day
runScript ==
  /\ bpc = "exited" /\ runs < MaxRuns
  /\ runs' = runs + 1
  /\ reportDate' \in BatchDates
  /\ bpc' = "start" /\ loopI' = 0 /\ results' = <<>>
  /\ reportsDir' = <<>>
  /\ delays' = 0 /\ openPages' = 0
  /\ exitCode' = NoValue
  /\ UNCHANGED <<calcVars, scraperVars, script, FLEET_IDS, exits>>

BatchNext ==
  \/ checkCompiled \/ mkdirReports \/ callScrape
  \/ scrapeCreatePage \/ scrapeConfigPage \/ scrapeTry
  \/ writeFleetJson \/ interFleetDelay \/ generateSummaryReport
  \/ runScript

SpecBatch == InitBatch /\ [][BatchNext]_vars


\* ----------------------------------------------------- forecast calculator
\* src/lib/services/forecast-calculator.ts with the date utilities it uses.
\* A Date is a record [year, month, day] of the local calendar.
\* getDaysInMonth of date-fns
getDaysInMonth(y, m) ==
  IF m = 2
  THEN (IF (y % 4 = 0 /\ y % 100 # 0) \/ y % 400 = 0 THEN 28 + 1 ELSE 28)
  ELSE IF m \in {4, 6, 9, 11} THEN 30
  ELSE 30 + 1

RECURSIVE DaysBeforeMonth(_, _)
\* the days of the year y that lie before the month m
DaysBeforeMonth(y, m) ==
  IF m <= 1 THEN 0
  ELSE DaysBeforeMonth(y, m - 1) + getDaysInMonth(y, m - 1)

\* getFiscalYear, lines 260-262
getFiscalYear(date) == date.year

\* getDaysInFiscalYear, lines 283-287
getDaysInFiscalYear(fiscalYear) ==
  DaysBeforeMonth(fiscalYear, 12) + getDaysInMonth(fiscalYear, 12)

RECURSIVE DaysOfYears(_, _)
\* the days of the years from..(to - 1)
DaysOfYears(from, to) ==
  IF from >= to THEN 0
  ELSE getDaysInFiscalYear(from) + DaysOfYears(from + 1, to)

\* getDaysElapsed, lines 292-302: 0 before the start of the fiscal year,
\* else the days from January 1 of the fiscal year to the date, both counted
getDaysElapsed(date, fiscalYear) ==
  IF date.year < fiscalYear THEN 0
  ELSE DaysOfYears(fiscalYear, date.year)
         + DaysBeforeMonth(date.year, date.month) + (date.day - 1) + 1

\* calculateYTDSpend, lines 18-24
calculateYTDSpend(spendData) ==
  IF Len(spendData) = 0 THEN Num(0)
  ELSE RSum([k \in DOMAIN spendData |-> spendData[k].amount])

\* calculateAverageDailyBurnRate, lines 85-97
calculateAverageDailyBurnRate(ytd, currentDate) ==
  LET fiscalYear == getFiscalYear(currentDate)
      daysElapsed == getDaysElapsed(currentDate, fiscalYear)
  IN IF daysElapsed = 0 THEN Num(0)
     ELSE RDiv(ytd, Num(daysElapsed))

\* forecastEOYSpend, lines 103-117
forecastEOYSpend(ytd, burnRate, currentDate) ==
  IF IsZero(burnRate) THEN ytd
  ELSE RMul(burnRate, Num(getDaysInFiscalYear(getFiscalYear(currentDate))))

\* calculateBudgetVariance, lines 123-140
calculateBudgetVariance(budget, forecastedEOYSpend) ==
  LET variance == RSub(forecastedEOYSpend, budget)
  IN [variance |-> variance,
      variancePercentage |->
        IF RGt(budget, Num(0)) THEN RMul(RDiv(variance, budget), Num(100))
        ELSE Num(0),
      isOverBudget |-> RGt(variance, Num(0))]

\* calculateMonthlyBurnRates, lines 30-80: one entry per month from January
\* to the month of currentDate; the current month counts the days so far
calculateMonthlyBurnRates(spendData, currentDate) ==
  IF Len(spendData) = 0 THEN <<>>
  ELSE [m \in 1..currentDate.month |->
          LET y == getFiscalYear(currentDate)
              \* the entries whose month key is that of (y, m)
              ofMonth == SelectSeq(spendData,
                                   LAMBDA e : e.date.year = y
                                              /\ e.date.month = m)
              totalSpend == RSum([k \in DOMAIN ofMonth |-> ofMonth[k].amount])
              daysInMonth == IF m = currentDate.month THEN currentDate.day
                             ELSE getDaysInMonth(y, m)
          IN [month |-> <<y, m>>,
              totalSpend |-> totalSpend,
              daysInMonth |-> daysInMonth,
              dailyBurnRate |-> IF daysInMonth > 0
                                THEN RDiv(totalSpend, Num(daysInMonth))
                                ELSE Num(0)]]

\* calculateForecast, lines 145-190 (fiscalYear stands for fiscalYearStart
\* and fiscalYearEnd, which are January 1 and December 31 of that year)
calculateForecast(fid, name, budget, spendData, currentDate) ==
  LET fiscalYear == getFiscalYear(currentDate)
      ytd == calculateYTDSpend(spendData)
      avgDailyBurnRate == calculateAverageDailyBurnRate(ytd, currentDate)
      forecastedEOYSpend == forecastEOYSpend(ytd, avgDailyBurnRate, currentDate)
      bv == calculateBudgetVariance(budget, forecastedEOYSpend)
  IN [fleetId |-> fid,
      fleetName |-> name,
      budget |-> budget,
      ytdSpend |-> ytd,
      avgDailyBurnRate |-> avgDailyBurnRate,
      monthlyBurnRates |-> calculateMonthlyBurnRates(spendData, currentDate),
      forecastedEOYSpend |-> forecastedEOYSpend,
      variance |-> bv.variance,
      variancePercentage |-> bv.variancePercentage,
      isOverBudget |-> bv.isOverBudget,
      fiscalYear |-> fiscalYear,
      daysInFiscalYear |-> getDaysInFiscalYear(fiscalYear),
      daysElapsed |-> getDaysElapsed(currentDate, fiscalYear)]

RECURSIVE Flatten(_)
\* the elements of a sequence of sequences, in order
Flatten(seqs) ==
  IF seqs = <<>> THEN <<>>
  ELSE seqs[1] \o Flatten(SubSeq(seqs, 2, Len(seqs)))

RECURSIVE SortKeys(_)
\* the keys in the order of a.month.localeCompare(b.month): 'yyyy-MM' keys
\* compare as (year, month)
SortKeys(keys) ==
  IF keys = {} THEN <<>>
  ELSE LET least == CHOOSE k \in keys :
                      \A other \in keys :
                        k[1] * 12 + k[2] <= other[1] * 12 + other[2]
       IN <<least>> \o SortKeys(keys \ {least})

\* the map of lines 219-238: per month the first entry seen, with the
\* totalSpend and the dailyBurnRate of all entries of that month added up
AggregateMonthlyBurnRates(fleets) ==
  LET all == Flatten([k \in DOMAIN fleets |-> fleets[k].monthlyBurnRates])
      keys == SortKeys({all[k].month : k \in DOMAIN all})
  IN [k \in DOMAIN keys |->
        LET ofMonth == SelectSeq(all, LAMBDA e : e.month = keys[k])
        IN [month |-> keys[k],
            totalSpend |->
              RSum([x \in DOMAIN ofMonth |-> ofMonth[x].totalSpend]),
            daysInMonth |-> ofMonth[1].daysInMonth,
            dailyBurnRate |->
              RSum([x \in DOMAIN ofMonth |-> ofMonth[x].dailyBurnRate])]]

\* the aggregate that adds up the members' forecasts
aggregateFleetData_SumOfForecasts(mainFleet, subFleets, today) ==
  IF Len(subFleets) = 0
  THEN [subFleets |-> <<>>] @@ mainFleet
  ELSE LET fleets == <<mainFleet>> \o subFleets
           totalBudget == RSum([k \in DOMAIN fleets |-> fleets[k].budget])
           totalYTDSpend == RSum([k \in DOMAIN fleets |-> fleets[k].ytdSpend])
           forecastedEOYSpend ==
             RSum([k \in DOMAIN fleets |-> fleets[k].forecastedEOYSpend])
           bv == calculateBudgetVariance(totalBudget, forecastedEOYSpend)
       IN [subFleets |-> subFleets,
           budget |-> totalBudget,
           ytdSpend |-> totalYTDSpend,
           avgDailyBurnRate |->
             RSum([k \in DOMAIN fleets |-> fleets[k].avgDailyBurnRate]),
           monthlyBurnRates |-> AggregateMonthlyBurnRates(fleets),
           forecastedEOYSpend |-> forecastedEOYSpend,
           variance |-> bv.variance,
           variancePercentage |-> bv.variancePercentage,
           isOverBudget |-> bv.isOverBudget] @@ mainFleet

\* aggregateFleetData, lines 196-252; today is the Date that lines 211 and
\* 212 read from the clock
aggregateFleetData(mainFleet, subFleets, today) ==
  IF Len(subFleets) = 0
  THEN [subFleets |-> <<>>] @@ mainFleet
  ELSE LET fleets == <<mainFleet>> \o subFleets
           totalBudget ==
             RAdd(mainFleet.budget,
                  RSum([k \in DOMAIN subFleets |-> subFleets[k].budget]))
           totalYTDSpend ==
             RAdd(mainFleet.ytdSpend,
                  RSum([k \in DOMAIN subFleets |-> subFleets[k].ytdSpend]))
           avgDailyBurnRate ==
             calculateAverageDailyBurnRate(totalYTDSpend, today)
           forecastedEOYSpend ==
             forecastEOYSpend(totalYTDSpend, avgDailyBurnRate, today)
           bv == calculateBudgetVariance(totalBudget, forecastedEOYSpend)
       IN [subFleets |-> subFleets,
           budget |-> totalBudget,
           ytdSpend |-> totalYTDSpend,
           avgDailyBurnRate |-> avgDailyBurnRate,
           monthlyBurnRates |-> AggregateMonthlyBurnRates(fleets),
           forecastedEOYSpend |-> forecastedEOYSpend,
           variance |-> bv.variance,
           variancePercentage |-> bv.variancePercentage,
           isOverBudget |-> bv.isOverBudget] @@ mainFleet

\* ------------------------------------------------------- forecast service
\* src/unnamed/part_010: getFleetForecast and the mock data behind it
DefaultUrl == "https://cerberus.cloudtune.amazon.dev"

CustomUrl == "https://cerberus.example.test"

\* a || b of two strings
OrElse(a, b) == IF a # "" THEN a ELSE b

\* CEREBUS_BASE_URL, line 12
CEREBUS_BASE_URL(env) == OrElse(env.NEXT_PUBLIC_CEREBUS_URL, DefaultUrl)

\* the dates of the year y from January 1 to the day d of the month m
DaysUpTo(y, m, d) ==
  [k \in 1..(DaysBeforeMonth(y, m) + d) |->
     LET mk == CHOOSE x \in 1..12 :
                 DaysBeforeMonth(y, x) < k
                 /\ k <= DaysBeforeMonth(y, x) + getDaysInMonth(y, x)
     IN [year |-> y, month |-> mk, day |-> k - DaysBeforeMonth(y, mk)]]

\* Math.random() * 1000 + 500, line 32: the draws of one call, repeated in
\* turn over the days
RandomDraws == [1..2 -> {Num(500), Num(1000)}]

\* generateMockData, lines 18-59; today is the Date read from the clock
generateMockData(fid, today, draws) ==
  LET days == DaysUpTo(today.year, today.month, today.day)
      monthsData == [k \in DOMAIN days |->
                       [date |-> days[k], amount |-> draws[(k % 2) + 1]]]
  IN [budget |-> [total |-> Num(500000), fleetId |-> fid,
                  fleetName |-> <<"Fleet ", fid>>],
      spend |-> [k \in DOMAIN monthsData |->
                   [date |-> monthsData[k].date,
                    amount |-> monthsData[k].amount,
                    fleetId |-> fid]],
      subFleets |->
        <<[fleetId |-> <<fid, "-sub1">>,
           fleetName |-> <<"Sub-Fleet ", fid, "-1">>,
           budget |-> Num(150000),
           spend |-> [k \in DOMAIN monthsData |->
                        [date |-> monthsData[k].date,
                         amount |-> RMul(monthsData[k].amount, Rat(3, 10))]]],
          [fleetId |-> <<fid, "-sub2">>,
           fleetName |-> <<"Sub-Fleet ", fid, "-2">>,
           budget |-> Num(100000),
           spend |-> [k \in DOMAIN monthsData |->
                        [date |-> monthsData[k].date,
                         amount |-> RMul(monthsData[k].amount, Rat(2, 10))]]]>>]

\* the fallback of getFleetForecast, lines 174-207
MockForecast(fid, today, draws) ==
  LET mockData == generateMockData(fid, today, draws)
      mainFleetForecast ==
        calculateForecast(mockData.budget.fleetId, mockData.budget.fleetName,
                          mockData.budget.total, mockData.spend, today)
      subFleetForecasts ==
        [k \in DOMAIN mockData.subFleets |->
           LET subFleet == mockData.subFleets[k]
           IN calculateForecast(
                subFleet.fleetId, subFleet.fleetName, subFleet.budget,
                [x \in DOMAIN subFleet.spend |->
                   [date |-> subFleet.spend[x].date,
                    amount |-> subFleet.spend[x].amount,
                    fleetId |-> subFleet.fleetId]],
                today)]
  IN aggregateFleetData(mainFleetForecast, subFleetForecasts, today)

\* the forecast built from a scraped record, lines 152-165
ScrapedForecast(scraped, today) ==
  LET mockSpendData ==
        <<[fleetId |-> scraped.fleetId,
           date |-> today,
           amount |-> RDiv(scraped.ytdSpend, Num(scraped.monthsElapsed))]>>
  IN calculateForecast(scraped.fleetId, scraped.fleetName, scraped.imrGoal,
                       mockSpendData, today)

\* the condition of line 142
ScrapeAttempted(env, serverSide) ==
  LET cerberusUrl == OrElse(env.CERBERUS_URL, CEREBUS_BASE_URL(env))
  IN serverSide /\ cerberusUrl # "" /\ cerberusUrl # DefaultUrl

\* the fallback that rethrows the scraping error
getFleetForecast_Propagate(fid, env, serverSide, outcome, today, draws) ==
  IF ScrapeAttempted(env, serverSide)
  THEN (IF outcome.kind = "data"
        THEN [kind |-> "forecast", scrapeCalls |-> 1,
              value |-> ScrapedForecast(outcome.data, today)]
        ELSE [kind |-> "error", scrapeCalls |-> 1, error |-> outcome.error])
  ELSE [kind |-> "forecast", scrapeCalls |-> 0,
        value |-> MockForecast(fid, today, draws)]

\* getFleetForecast, lines 138-215; outcome is what scrapeCerebusComplete
\* returns or throws when it is called, scrapeCalls the number of its calls
getFleetForecast(fid, env, serverSide, outcome, today, draws) ==
  IF ScrapeAttempted(env, serverSide)
  THEN (IF outcome.kind = "data"
        THEN [kind |-> "forecast", scrapeCalls |-> 1,
              value |-> ScrapedForecast(outcome.data, today)]
        ELSE [kind |-> "forecast", scrapeCalls |-> 1,
              value |-> MockForecast(fid, today, draws)])
  ELSE [kind |-> "forecast", scrapeCalls |-> 0,
        value |-> MockForecast(fid, today, draws)]

\* ---------------------------------------------------------------- doubles
\* The numbers of the program are IEEE-754 doubles. Where a claim depends
\* on their rounding they are modelled as m * 2^e with a 53-bit m, kept as
\* a sequence of 16-bit limbs (most significant first, no leading zero
\* limb); the operations round to nearest, ties to even.
Limb == 65536

\* a natural number without its leading zero limbs
BigNorm(s) ==
  LET nz == {i \in DOMAIN s : s[i] # 0}
  IN IF nz = {} THEN <<>>
     ELSE SubSeq(s, CHOOSE i \in nz : \A j \in nz : i <= j, Len(s))

\* s * k for 0 < k <= 2^14
BigMulSmall(s, k) ==
  LET n == Len(s)
      t[i \in 0..n] ==
        IF i = 0 THEN 0 ELSE s[n + 1 - i] * k + (t[i - 1] \div Limb)
  IN BigNorm(<<t[n] \div Limb>> \o [j \in 1..n |-> t[n + 1 - j] % Limb])

\* quotient and remainder of s by k, for 0 < k <= 2^15
BigDivSmall(s, k) ==
  LET n == Len(s)
      r[i \in 0..n] ==
        IF i = 0 THEN 0 ELSE (r[i - 1] * Limb + s[i]) % k
  IN [q |-> BigNorm([j \in 1..n |-> (r[j - 1] * Limb + s[j]) \div k]),
      r |-> r[n]]

\* s + a for 0 <= a < 2^15
BigAddSmall(s, a) ==
  LET n == Len(s)
      t[i \in 0..n] ==
        IF i = 0 THEN a * Limb ELSE s[n + 1 - i] + (t[i - 1] \div Limb)
  IN BigNorm(<<t[n] \div Limb>> \o [j \in 1..n |-> t[n + 1 - j] % Limb])

\* the number of bits of s
BigBits(s) ==
  IF s = <<>> THEN 0
  ELSE 16 * (Len(s) - 1)
         + (CHOOSE b \in 1..16 : 2 ^ (b - 1) <= s[1] /\ s[1] < 2 ^ b)

\* s * 2^t
BigShl(s, t) == BigMulSmall(s \o [j \in 1..(t \div 16) |-> 0], 2 ^ (t % 16))

\* s \div 2^t, and whether a set bit was shifted out
BigShr(s, t) ==
  LET keep == IF Len(s) > t \div 16 THEN Len(s) - t \div 16 ELSE 0
      d == BigDivSmall(SubSeq(s, 1, keep), 2 ^ (t % 16))
  IN [q |-> d.q,
      lost |-> d.r # 0 \/ \E i \in (keep + 1)..Len(s) : s[i] # 0]

\* the double nearest to p * 2^e (sticky: a nonzero fraction below p's last
\* bit was already dropped)
DRound(p, e, sticky) ==
  LET t == BigBits(p) - 53
      BigIsOdd(s) == s # <<>> /\ s[Len(s)] % 2 = 1
  IN IF p = <<>> THEN [m |-> <<>>, e |-> 0]
     ELSE IF t <= 0 THEN [m |-> BigShl(p, -t), e |-> e + t]
     ELSE LET h == BigShr(p, t - 1)
              k == BigShr(h.q, 1).q
              up == BigIsOdd(h.q) /\ (h.lost \/ sticky \/ BigIsOdd(k))
              m == IF up THEN BigAddSmall(k, 1) ELSE k
          IN IF BigBits(m) > 53
             THEN [m |-> BigShr(m, 1).q, e |-> e + t + 1]
             ELSE [m |-> m, e |-> e + t]

\* x * k of a double and an integer 0 < k <= 2^14
DMul(x, k) == DRound(BigMulSmall(x.m, k), x.e, FALSE)

\* x / k of a double and an integer 0 < k < 2^11
DDiv(x, k) ==
  LET d == BigDivSmall(BigShl(x.m, 12), k)
  IN DRound(d.q, x.e - 12, d.r # 0)

\* parseFloat of the decimal text num/den, times the multiplier of its
\* suffix (parseCurrencyAmount, lines 356-372, in doubles); the numerator
\* is an integer 0 <= num < 2^31
DParse(t) ==
  LET n == DRound(BigNorm(<<t.num \div Limb, t.num % Limb>>), 0, FALSE)
      f == DDiv(n, t.den)
  IN IF t.mult = 1 THEN f ELSE DMul(f, t.mult)

\* lines 595-600 of scrapeCerebusComplete in doubles
ProjectDouble(ytd, today) ==
  LET monthsElapsed == calculateMonthsElapsed(today)
      monthlyBurnRate == DDiv(ytd, monthsElapsed)
  IN [ytdSpend |-> ytd,
      monthsElapsed |-> monthsElapsed,
      monthlyBurnRate |-> monthlyBurnRate,
      projectedEOY |-> DMul(monthlyBurnRate, 12)]

\* ------------------------------------------------- functions on their own
\* the run dates: the 6th of every month of two years
MonthDays == [year : {2026, 2027}, month : 1..12, day : {6}]

\* the dates of the daily forecast
ForecastDays ==
  {[year |-> 2026, month |-> 1, day |-> 1],
   [year |-> 2026, month |-> 1, day |-> 6],
   [year |-> 2026, month |-> 2, day |-> 6],
   [year |-> 2028, month |-> 3, day |-> 1]}

Amounts == {Num(0), Num(150900), Num(2360000)}

Budgets == {Num(0), Num(150900), Num(500000)}

SpendLists ==
  {<<>>,
   <<[fleetId |-> "8304669",
      date |-> [year |-> 2026, month |-> 1, day |-> 3],
      amount |-> Num(1000)]>>,
   <<[fleetId |-> "8304669",
      date |-> [year |-> 2026, month |-> 1, day |-> 3],
      amount |-> Num(1000)],
     [fleetId |-> "8304669",
      date |-> [year |-> 2026, month |-> 2, day |-> 2],
      amount |-> Num(500)]>>}

\* forecasts of member fleets, made on one of two days
MemberForecasts ==
  {calculateForecast("8304669", <<"Fleet ", "8304669">>, Num(500000), sd, d) :
     sd \in SpendLists \ {<<>>},
     d \in {[year |-> 2026, month |-> 1, day |-> 6],
            [year |-> 2026, month |-> 2, day |-> 6]}}

SeqsUpTo(S, n) == UNION {[1..k -> S] : k \in 0..n}

\* the fleet route, src/app/api/fleet/route.ts (part_001). A name in the
\* reports directory is a sequence of numbers: <<2026, 2, 6>> is
\* "2026-02-06"; a shorter one, as <<2026, 2>>, does not match the pattern
\* of line 66. The fields have a fixed width, so that the texts sort as the
\* number sequences do.
NameBefore(a, b) ==
  \/ a[1] < b[1]
  \/ a[1] = b[1] /\ a[2] < b[2]
  \/ a[1] = b[1] /\ a[2] = b[2] /\ a[3] < b[3]

\* mutant: the directories are tried oldest first (.reverse() is dropped)
sortedDirs_Ascending(reportDirs) ==
  LET dated == {n \in reportDirs : Len(n) = 3}
  IN CHOOSE sq \in [1..Cardinality(dated) -> dated] :
       \A i, j \in DOMAIN sq : i < j => NameBefore(sq[i], sq[j])

\* lines 64-68: filter by /^\d{4}-\d{2}-\d{2}$/, sort, reverse
sortedDirs(reportDirs) ==
  LET dated == {n \in reportDirs : Len(n) = 3}
  IN CHOOSE sq \in [1..Cardinality(dated) -> dated] :
       \A i, j \in DOMAIN sq : i < j => NameBefore(sq[j], sq[i])

\* generateMonthlyData, lines 123-157: the spend spread evenly over the
\* months elapsed, the remaining months at zero
generateMonthlyData(scrapedData) ==
  LET monthlySpend == RDiv(scrapedData.ytdSpend,
                           Num(scrapedData.monthsElapsed))
  IN [k \in 1..12 |->
        LET daysInMonth == getDaysInMonth(scrapedData.fiscalYear, k)
            elapsed == k <= scrapedData.monthsElapsed
        IN [month |-> k,
            monthName |-> <<k, scrapedData.fiscalYear>>,
            totalSpend |-> IF elapsed THEN monthlySpend ELSE Num(0),
            daysInMonth |-> daysInMonth,
            dailyBurnRate |-> IF elapsed
                              THEN RDiv(monthlySpend, Num(daysInMonth))
                              ELSE Num(0)]]

\* GET, lines 47-117. id is the "id" parameter ("" when there is none);
\* reports is what the file system holds: no reports directory, or the
\* directories with their files, a file being JSON text or not
GET(id, reports) ==
  IF id = "" THEN [status |-> 400, error |-> "Fleet ID is required"]
  ELSE IF reports.kind = "ENOENT"
  THEN [status |-> 500, error |-> "Failed to load fleet data"]
  ELSE LET fleetFile == <<"fleet-", id, ".json">>
           \* readFile and JSON.parse succeed
           parsed(dir) ==
             /\ fleetFile \in DOMAIN reports.dirs[dir]
             /\ reports.dirs[dir][fleetFile].kind = "json"
           found == SelectSeq(sortedDirs(DOMAIN reports.dirs), parsed)
       IN IF found = <<>>
          THEN [status |-> 404, error |-> "No scraped data found for fleet",
                fleetId |-> id]
          ELSE LET scrapedData == reports.dirs[found[1]][fleetFile].value
               IN [status |-> 200,
                   body |->
                     [fleetId |-> scrapedData.fleetId,
                      fleetName |-> scrapedData.fleetName,
                      budget |-> scrapedData.imrGoal,
                      ytdSpend |-> scrapedData.ytdSpend,
                      forecastedEOYSpend |-> scrapedData.projectedEOY,
                      variance |-> scrapedData.variance,
                      variancePercentage |-> scrapedData.variancePercent,
                      isOverBudget |-> scrapedData.isOverBudget,
                      avgDailyBurnRate |->
                        RDiv(scrapedData.monthlyBurnRate, Num(30)),
                      fiscalYearStart |->
                        [year |-> scrapedData.fiscalYear,
                         month |-> 1, day |-> 1],
                      fiscalYearEnd |->
                        [year |-> scrapedData.fiscalYear,
                         month |-> 12, day |-> 30 + 1],
                      daysElapsed |-> scrapedData.monthsElapsed * 30,
                      monthlyBurnRates |-> generateMonthlyData(scrapedData),
                      subFleets |-> <<>>]]

\* isLoggedIn, lines 183-237, as a function of the page it opens. The page
\* says whether page.goto rejects, which Cerberus markers (1..4, in the
\* order of cerberusIndicators) and which login-form markers (1..5, in the
\* order of loginIndicators) its DOM holds, and for which of them page.$
\* rejects. The log line tells the return statements apart.
isLoggedInResult(p) ==
  LET query(present, throws, i) ==
        IF i \in throws THEN "throws"
        ELSE IF i \in present THEN "element" ELSE "null"
      \* the first login selector whose query does not resolve to null
      stop == {i \in 1..5 :
                 /\ query(p.loginPresent, p.loginThrows, i) # "null"
                 /\ \A j \in 1..(i - 1) :
                      query(p.loginPresent, p.loginThrows, j) = "null"}
  IN IF p.gotoThrows
     THEN [loggedIn |-> FALSE, log |-> "Error checking login status"]
     ELSE IF \E i \in 1..4 :
               query(p.cerberusPresent, p.cerberusThrows, i) = "element"
     THEN [loggedIn |-> TRUE, log |-> "Logged in - found Cerberus element"]
     ELSE IF stop = {}
     THEN [loggedIn |-> FALSE,
           log |-> "No Cerberus elements or login forms found"]
     ELSE IF \E i \in stop :
               query(p.loginPresent, p.loginThrows, i) = "throws"
     THEN [loggedIn |-> FALSE, log |-> "Error checking login status"]
     ELSE [loggedIn |-> FALSE,
           log |-> "Not logged in - found login form element"]

\* the arguments a caller passes
Args(fn) ==
  CASE fn = "parseCurrencyAmount" ->
         \* an optional "$", a number or a placeholder, a suffix
         {t \in [prefix : {<<>>, <<"$">>},
                 number : {<<>>, <<"-">>, <<"N", "/", "A">>, <<"1">>,
                           <<"1", ".", "2">>, <<"1", ",", "0", "0", "0">>,
                           <<"1", "5", "0", ".", "9">>},
                 suffix : {<<>>, <<"K">>, <<"M">>, <<"B">>, <<"M", "M">>,
                           <<"k">>, <<"m", "m">>, <<" ", "M">>}] :
            t.suffix \in {<<"B">>} => Len(t.number) <= 3}
    [] fn = "calculateMonthsElapsed" -> [fiscalYear : {2026, 2027}]
    [] fn = "scrapeCerebusComplete" ->
         [fleetId : {"8304669"}, imrGoal : Amounts \ {Num(0)},
          ytdSpend : Amounts]
    [] fn = "projectedEOY" ->
         \* the spend as the dashboard shows it: "2.01K", "150.9K",
         \* "1234.56", "0.21", "2360000", "16.1K"
         {[num |-> 201, den |-> 100, mult |-> 1000],
          [num |-> 1509, den |-> 10, mult |-> 1000],
          [num |-> 123456, den |-> 100, mult |-> 1],
          [num |-> 21, den |-> 100, mult |-> 1],
          [num |-> 2360000, den |-> 1, mult |-> 1],
          [num |-> 161, den |-> 10, mult |-> 1000]}
    [] fn = "calculateBudgetVariance" ->
         [budget : Budgets,
          forecastedEOYSpend : Budgets \cup {Num(1810800)}]
    [] fn = "calculateForecast" ->
         \* without a currentDate the function reads the clock
         [fleetId : {"8304669"}, budget : Budgets, spendData : SpendLists,
          currentDate : ForecastDays, dateGiven : {TRUE}]
         \cup [fleetId : {"8304669"}, budget : Budgets,
               spendData : SpendLists,
               currentDate : {[year |-> 0, month |-> 0, day |-> 0]},
               dateGiven : {FALSE}]
    [] fn = "aggregateFleetData" ->
         [mainFleet : MemberForecasts,
          subFleets : SeqsUpTo({m \in MemberForecasts : m.daysElapsed = 6},
                               MaxMembers)]
    [] fn = "generateSummaryReport" ->
         \* each successful entry was computed on the date its scrape read
         \* from the clock, and the entries follow the clock: none of
         \* January comes after one of February
         LET entries ==
               {FleetResult(CompleteData("8304669", <<"Fleet ", "8304669">>,
                                         Num(2360000), spend, d)) :
                  spend \in Amounts \ {Num(0)},
                  d \in {x \in MonthDays :
                           x.year = 2026 /\ x.month \in {1, 2}}}
               \cup {FailureResult("8304669", TimeoutError)}
         IN {a \in [results : SeqsUpTo(entries, MaxMembers)] :
               \A i, j \in DOMAIN a.results :
                 (i < j /\ a.results[i].success /\ a.results[j].success)
                 => ~(a.results[i].monthsElapsed = 1
                      /\ a.results[j].monthsElapsed = 12)}
    [] fn = "GET" ->
         \* the reports of up to three runs and a directory that is not
         \* named by a date; a run has left the record of the fleet, its
         \* ERROR file only, the record of another fleet only, or a fleet
         \* file that is not JSON text
         LET names == {<<2025, 12, 6>>, <<2026, 1, 6>>, <<2026, 2, 6>>,
                       <<2026, 2>>}
             record(fid, n) ==
               [kind |-> "json",
                value |-> FleetResult(CompleteData(fid, FleetLabel(fid),
                            Num(2360000), Num(1000 * n[2]),
                            [year |-> n[1], month |-> n[2], day |-> 6]))]
             files(left, n) ==
               CASE left = "record" ->
                      WriteFile(<<>>, FleetJson("8304669"),
                                record("8304669", n))
                 [] left = "error" ->
                      WriteFile(<<>>, ErrorJson("8304669"),
                                [kind |-> "json",
                                 value |-> FailureResult("8304669",
                                                         TimeoutError)])
                 [] left = "other" ->
                      WriteFile(<<>>, FleetJson("8305082"),
                                record("8305082", n))
                 [] left = "text" ->
                      WriteFile(<<>>, FleetJson("8304669"),
                                [kind |-> "text"])
         IN [id : {"8304669", ""},
             reports :
               {[kind |-> "ENOENT"]}
               \cup {[kind |-> "dirs",
                      dirs |-> [n \in DOMAIN left |-> files(left[n], n)]] :
                       left \in UNION {[present ->
                                          {"record", "error", "other",
                                           "text"}] :
                                         present \in SUBSET names}}]
    [] fn = "isLoggedIn" ->
         [gotoThrows : BOOLEAN,
          cerberusPresent : SUBSET (1..4),
          cerberusThrows : {{}, {1}, 1..4},
          loginPresent : {{}, {1}, {5}},
          loginThrows : {{}, {1}}]
    [] fn = "getFleetForecast" ->
         [fleetId : {"8304669"},
          env : [CERBERUS_URL : {"", DefaultUrl, CustomUrl},
                 NEXT_PUBLIC_CEREBUS_URL : {"", CustomUrl}],
          serverSide : BOOLEAN]

\* what a call finds around it: the clock, the random numbers, the dashboard
Envs(fn) ==
  CASE fn \in {"parseCurrencyAmount", "calculateBudgetVariance",
               "generateSummaryReport", "isLoggedIn", "GET"} ->
         {[kind |-> "none"]}
    [] fn \in {"calculateMonthsElapsed", "scrapeCerebusComplete",
               "projectedEOY"} -> [today : MonthDays]
    [] fn \in {"calculateForecast", "aggregateFleetData"} ->
         [today : ForecastDays]
    [] fn = "getFleetForecast" ->
         UNION {[today : {d},
                 draws : RandomDraws,
                 outcome :
                   {[kind |-> "data",
                     data |-> CompleteData("8304669",
                                           <<"Fleet ", "8304669">>,
                                           Num(2360000), Num(150900), d)],
                    [kind |-> "error", error |-> TimeoutError]}] :
                  d \in {[year |-> 2026, month |-> 1, day |-> 6],
                         [year |-> 2026, month |-> 2, day |-> 2]}}

\* the value the function returns
Eval(fn, arg, env) ==
  CASE fn = "parseCurrencyAmount" ->
         parseCurrencyAmount(arg.prefix \o arg.number \o arg.suffix)
    [] fn = "calculateMonthsElapsed" ->
         calculateMonthsElapsed(env.today)
    [] fn = "scrapeCerebusComplete" ->
         CompleteData(arg.fleetId, FleetLabel(arg.fleetId), arg.imrGoal,
                 arg.ytdSpend, env.today)
    [] fn = "projectedEOY" ->
         ProjectDouble(DParse(arg), env.today)
    [] fn = "calculateBudgetVariance" ->
         calculateBudgetVariance(arg.budget, arg.forecastedEOYSpend)
    [] fn = "calculateForecast" ->
         calculateForecast(arg.fleetId, FleetLabel(arg.fleetId), arg.budget,
                      arg.spendData,
                      IF arg.dateGiven THEN arg.currentDate ELSE env.today)
    [] fn = "aggregateFleetData" ->
         aggregateFleetData(arg.mainFleet, arg.subFleets, env.today)
    [] fn = "generateSummaryReport" ->
         SummaryText(arg.results)
    [] fn = "isLoggedIn" ->
         isLoggedInResult(arg)
    [] fn = "GET" ->
         GET(arg.id, arg.reports)
    [] fn = "getFleetForecast" ->
         getFleetForecast(arg.fleetId, arg.env, arg.serverSide, env.outcome,
                     env.today, env.draws)

callParseCurrencyAmount ==
  /\ CalcIdle
  /\ \E arg \in Args("parseCurrencyAmount"),
        env \in Envs("parseCurrencyAmount") :
       call' = [fn |-> "parseCurrencyAmount", arg |-> arg, env |-> env,
                out |-> parseCurrencyAmount(arg.prefix \o arg.number \o arg.suffix)]
  /\ prev' = NoCall
  /\ UNCHANGED <<scraperVars, batchVars>>

callCalculateMonthsElapsed ==
  /\ CalcIdle
  /\ \E arg \in Args("calculateMonthsElapsed"),
        env \in Envs("calculateMonthsElapsed") :
       call' = [fn |-> "calculateMonthsElapsed", arg |-> arg, env |-> env,
                out |-> calculateMonthsElapsed(env.today)]
  /\ prev' = NoCall
  /\ UNCHANGED <<scraperVars, batchVars>>

callScrapeCerebusComplete ==
  /\ CalcIdle
  /\ \E arg \in Args("scrapeCerebusComplete"),
        env \in Envs("scrapeCerebusComplete") :
       call' = [fn |-> "scrapeCerebusComplete", arg |-> arg, env |-> env,
                out |-> CompleteData(arg.fleetId, FleetLabel(arg.fleetId), arg.imrGoal,
                   arg.ytdSpend, env.today)]
  /\ prev' = NoCall
  /\ UNCHANGED <<scraperVars, batchVars>>

callProjectedEOY ==
  /\ CalcIdle
  /\ \E arg \in Args("projectedEOY"), env \in Envs("projectedEOY") :
       call' = [fn |-> "projectedEOY", arg |-> arg, env |-> env,
                out |-> ProjectDouble(DParse(arg), env.today)]
  /\ prev' = NoCall
  /\ UNCHANGED <<scraperVars, batchVars>>

callCalculateBudgetVariance ==
  /\ CalcIdle
  /\ \E arg \in Args("calculateBudgetVariance"),
        env \in Envs("calculateBudgetVariance") :
       call' = [fn |-> "calculateBudgetVariance", arg |-> arg, env |-> env,
                out |-> calculateBudgetVariance(arg.budget, arg.forecastedEOYSpend)]
  /\ prev' = NoCall
  /\ UNCHANGED <<scraperVars, batchVars>>

callCalculateForecast ==
  /\ CalcIdle
  /\ \E arg \in Args("calculateForecast"), env \in Envs("calculateForecast") :
       call' = [fn |-> "calculateForecast", arg |-> arg, env |-> env,
                out |-> calculateForecast(arg.fleetId, FleetLabel(arg.fleetId), arg.budget,
                        arg.spendData,
                        IF arg.dateGiven THEN arg.currentDate ELSE env.today)]
  /\ prev' = NoCall
  /\ UNCHANGED <<scraperVars, batchVars>>

callAggregateFleetData ==
  /\ CalcIdle
  /\ \E arg \in Args("aggregateFleetData"), env \in Envs("aggregateFleetData") :
       call' = [fn |-> "aggregateFleetData", arg |-> arg, env |-> env,
                out |-> aggregateFleetData(arg.mainFleet, arg.subFleets, env.today)]
  /\ prev' = NoCall
  /\ UNCHANGED <<scraperVars, batchVars>>

callGenerateSummaryReport ==
  /\ CalcIdle
  /\ \E arg \in Args("generateSummaryReport"),
        env \in Envs("generateSummaryReport") :
       call' = [fn |-> "generateSummaryReport", arg |-> arg, env |-> env,
                out |-> SummaryText(arg.results)]
  /\ prev' = NoCall
  /\ UNCHANGED <<scraperVars, batchVars>>

callGetFleetForecast ==
  /\ CalcIdle
  /\ \E arg \in Args("getFleetForecast"), env \in Envs("getFleetForecast") :
       call' = [fn |-> "getFleetForecast", arg |-> arg, env |-> env,
                out |-> getFleetForecast(arg.fleetId, arg.env, arg.serverSide, env.outcome,
                       env.today, env.draws)]
  /\ prev' = NoCall
  /\ UNCHANGED <<scraperVars, batchVars>>

callGET ==
  /\ CalcIdle
  /\ \E arg \in Args("GET"), env \in Envs("GET") :
       call' = [fn |-> "GET", arg |-> arg, env |-> env,
                out |-> GET(arg.id, arg.reports)]
  /\ prev' = NoCall
  /\ UNCHANGED <<scraperVars, batchVars>>

callIsLoggedIn ==
  /\ CalcIdle
  /\ \E arg \in Args("isLoggedIn"), env \in Envs("isLoggedIn") :
       call' = [fn |-> "isLoggedIn", arg |-> arg, env |-> env,
                out |-> isLoggedInResult(arg)]
  /\ prev' = NoCall
  /\ UNCHANGED <<scraperVars, batchVars>>

\* the same call once more, with the same arguments, at another moment
callAgain ==
  /\ call # NoCall
  /\ prev = NoCall
  /\ \E env \in Envs(call.fn) :
       call' = [fn |-> call.fn, arg |-> call.arg, env |-> env,
                out |-> Eval(call.fn, call.arg, env)]
  /\ prev' = call
  /\ UNCHANGED <<scraperVars, batchVars>>

CalcNext ==
  \/ callParseCurrencyAmount
  \/ callCalculateMonthsElapsed
  \/ callScrapeCerebusComplete
  \/ callProjectedEOY
  \/ callCalculateBudgetVariance
  \/ callCalculateForecast
  \/ callAggregateFleetData
  \/ callGenerateSummaryReport
  \/ callGetFleetForecast
  \/ callIsLoggedIn
  \/ callGET
  \/ callAgain

SpecCalc == Init /\ [][CalcNext]_vars

\* ================================================================ claims
Window == SESSION_VALIDITY_HOURS * UnitsPerHour

Last(seq) == IF seq = <<>> THEN "" ELSE seq[Len(seq)]

Decided == auth.path \in {"cached", "loggedIn", "manual"}

Failed == pc \in {"finally", "returned"} /\ result.kind = "error"

Has(seq, x) == \E i \in DOMAIN seq : seq[i] = x

\* C1: whenever ensureAuthenticated finds a readable timestamp younger than
\* 12 h it returns at once: no login check (no navigation, the page still
\* shows nothing) and no manual-login prompt.
C1_ShortCircuit ==
  (auth.path \notin {"none", "pending"} /\ ~auth.fault /\ auth.ts # NoFile
     /\ auth.enter - auth.ts < 12 * UnitsPerHour)
  => (auth.path = "cached" /\ auth.checks = 0 /\ auth.prompts = 0
        /\ pc = "pageGoto" /\ view = "none" /\ tsFile = auth.ts)

C1_Witness ==
  pc = "pageGoto" /\ auth.path = "cached" /\ auth.ts # NoFile /\ ~auth.fault
    /\ now > auth.ts

C3_ErrorPropagates ==
  (auth.path # "none" /\ auth.threw)
  => (Failed /\ auth.prompts = 0 /\ ~auth.wrote
        /\ auth.validatedAt = NoValue /\ ~Has(steps, "ensureAuthenticated"))

\* C4: the timestamp file changes only on the two writing paths of
\* ensureAuthenticated (logged in; manual login confirmed), where it becomes
\* the current time; every other step leaves it alone and none deletes it.
C4_TimestampFrame ==
  [][/\ tsFile' # tsFile =>
          /\ pc \in {"loggedInWrite", "manualWrite"}
          /\ pc = "loggedInWrite" => auth.path = "loggedIn"
          /\ pc = "manualWrite" => auth.path = "manual" /\ auth.keypress
          /\ tsFile' = now
     /\ tsFile # NoFile => tsFile' # NoFile
     /\ (pc = "authDecide" /\ pc' = "pageGoto") => tsFile' = tsFile]_vars

C4_Witness ==
  /\ pc = "pageGoto" /\ auth.path = "loggedIn" /\ auth.wrote
  /\ auth.ts # NoFile /\ tsFile = now /\ tsFile # auth.ts

\* C5: after a logged-out report ensureAuthenticated waits for the operator's
\* keypress: while it waits nothing but the clock changes (no timeout, no
\* re-check, no write); only the keypress ends the wait, and only then is the
\* timestamp written and the call returns.
C5_BlocksUntilKeypress ==
  [][/\ (pc = "isLoggedIn" /\ pc' # "loggedInWrite") => pc' = "promptManualLogin"
     /\ pc = "promptManualLogin" =>
          \/ /\ pc' = "promptManualLogin"
             /\ tsFile' = tsFile /\ view' = view /\ steps' = steps
             /\ auth'.checks = auth.checks /\ ~auth'.keypress
          \/ /\ pc' = "manualWrite"
             /\ auth.prompts = 1 /\ auth'.keypress
             /\ tsFile' = tsFile /\ auth'.checks = auth.checks
     /\ pc = "manualWrite" =>
          /\ auth.keypress /\ auth.checks = 1
          /\ pc' = "pageGoto" /\ tsFile' \in {tsFile, now}]_vars

C5_Witness ==
  /\ pc = "pageGoto" /\ auth.path = "manual" /\ ~auth.threw
  /\ auth.keypress /\ auth.wrote /\ tsFile = now
  /\ now - auth.enter >= Window


\* C6 as stated: a call of scrapeCerebusComplete that opened a page has
\* closed it when control is back in the caller, whatever path it took.
C6_PageClosedOnReturn ==
  (pc = "returned" /\ page # "none") => page = "closed"

ClaimedOrder ==
  <<"ensureAuthenticated", "fleetName", "select Full Year", "extractIMRGoal",
    "select Year to Date", "extractYTDSpend", "compute">>

NotGoto(x) == x # "goto"

IsPrefix(a, b) == Len(a) <= Len(b) /\ SubSeq(b, 1, Len(a)) = a

\* C7 as stated: the steps of one extraction complete in the order
\* authentication, fleet name, Full Year selection, budget, Year to Date
\* selection, spend, computation.
C7_StepOrder == IsPrefix(SelectSeq(steps, NotGoto), ClaimedOrder)

\* C8: control reaches the budget read only with the page in the Full Year
\* view and the spend read only in the Year to Date view, each right after
\* the successful selection of that period and the full settle delay, with
\* no navigation or period change in between; after a failed selection the
\* corresponding read has not happened.
C8_ReadsInView ==
  /\ pc = "extractIMRGoal" =>
       view = "Full Year" /\ waited = 3000 /\ Last(steps) = "select Full Year"
  /\ pc = "extractYTDSpend" =>
       view = "Year to Date" /\ waited = 3000
         /\ Last(steps) = "select Year to Date"
  /\ \A i \in DOMAIN steps :
       /\ steps[i] = "extractIMRGoal" => i > 1 /\ steps[i - 1] = "select Full Year"
       /\ steps[i] = "extractYTDSpend" =>
            i > 1 /\ steps[i - 1] = "select Year to Date"
  /\ ~Has(steps, "select Full Year") =>
       imrGoalText = <<>> /\ IsNaN(imrGoal) /\ ~Has(steps, "extractIMRGoal")
  /\ ~Has(steps, "select Year to Date") =>
       ytdSpendText = <<>> /\ IsNaN(ytdSpend) /\ ~Has(steps, "extractYTDSpend")

C8_Witness ==
  /\ pc = "compute" /\ view = "Year to Date" /\ waited = 3000
  /\ imrGoalText # <<>> /\ ytdSpendText # <<>>

AfterAuthFailure == Failed /\ Has(steps, "ensureAuthenticated")

C11_ZeroSpendContinues ==
  (ytdSpendText # <<>> /\ IsZero(parseCurrencyAmount(ytdSpendText)))
  => \/ pc = "compute" /\ ytdSpend = Num(0) /\ result = NoResult
     \/ /\ pc \in {"finally", "returned"}
        /\ result.kind = "data"
        /\ result.data.ytdSpend = Num(0)
        /\ result.data.monthlyBurnRate = Num(0)
        /\ result.data.projectedEOY = Num(0)

C11_Witness ==
  pc = "returned" /\ result.kind = "data" /\ ytdSpendText = T_Zero
    /\ result.data.ytdSpend = Num(0) /\ result.data.projectedEOY = Num(0)

NoDigit(text) == text # <<>> /\ \A k \in DOMAIN text : text[k] \notin Digits

\* C12: a budget text or a spend text that is not a number (non-empty, at
\* index 1) never aborts the extraction: the parsed amount is 0 and the call
\* goes on to return a record.
C12_MalformedFieldTolerated ==
  /\ NoDigit(imrGoalText)
       => (imrGoal = Num(0)
             /\ ~(Failed /\ Last(steps) = "select Full Year"))
  /\ NoDigit(ytdSpendText)
       => (ytdSpend = Num(0)
             /\ ~(Failed /\ Last(steps) = "select Year to Date"))

\* C13: when the page has no strong element the extraction goes on with
\* the label "Fleet {fleetId}" of the requested fleet (the only failure that
\* can follow at once is that of the next period selection), and that label
\* is the fleetName of the returned record.
C13_SynthesizedName ==
  (Has(steps, "fleetName") /\ fleetNameElements = <<>>)
  => /\ fleetName = <<"Fleet ", fleetId>>
     /\ Last(steps) = "fleetName"
          => \/ pc \in {"selectYearToDate", "settleYearToDate"}
             \/ Failed /\ result.error.message[1] = SelectPrefix("Year to Date")
     /\ result.kind = "data"
          => result.data.fleetName = <<"Fleet ", result.data.fleetId>>

C13_Witness ==
  pc = "returned" /\ result.kind = "data" /\ fleetNameElements = <<>>
    /\ result.data.fleetName = <<"Fleet ", "8305082">>


InExtraction == bpc \in {"scrape", "page", "try"}

N == Len(FLEET_IDS)

Min(a, b) == IF a < b THEN a ELSE b

HasFile(name) == name \in DOMAIN reportsDir

EntriesOf(fid) == SelectSeq(results, LAMBDA r : r.fleetId = fid)

\* C14: the fleets are processed one at a time in the supplied order: an
\* extraction begins only when no page is open (the page of the fleet before
\* has been closed), and never is more than one page open.
C14_OneAtATime ==
  /\ openPages <= 1
  /\ bpc \in {"loop", "scrape"} => openPages = 0
  /\ InExtraction => Len(results) >= loopI

\* C15: a failure while one fleet is processed never ends the batch: once
\* the loop has been entered, the process exits only after every fleet id
\* has been processed, and (monthly report) after the summary was attempted.
C15_BatchNeverAborts ==
  (bpc = "exited" /\ results # <<>>) => loopI = N

C17_OneEntryPerFleet ==
  HasFile(<<"summary.json">>)
  => LET sj == reportsDir[<<"summary.json">>]
     IN /\ sj.successful + sj.failed = N
        /\ sj.totalFleets = N
        /\ \A k \in 1..N : Len(EntriesOf(FLEET_IDS[k])) = 1

\* C18: the process exits with a nonzero status exactly when some fleet
\* failed, and at exit every fleet that succeeded has its record file and
\* is in the written summary.
C18_ExitStatus ==
  bpc = "exited"
  => /\ exitCode # 0 <=> Len(FailedFleets(results)) > 0
     /\ Monthly =>
          \A k \in DOMAIN results :
            results[k].success
            => /\ HasFile(FleetJson(results[k].fleetId))
               /\ HasFile(<<"summary.json">>)
               /\ \E m \in DOMAIN reportsDir[<<"summary.json">>].fleets :
                    reportsDir[<<"summary.json">>].fleets[m] = results[k]

\* C19: a completed run in which some fleets failed and a run that failed
\* as a whole never exit with the same status.
C19_StatusDistinguishes ==
  \A a \in exits : \A b \in exits :
    (a.outcome = "completed" /\ a.failed /\ b.outcome = "fatal")
    => a.code # b.code

\* the file of the k-th fleet: its record if the fleet has no failure
\* entry, and the failure entry otherwise
FileOfFleet(k) ==
  LET fid == FLEET_IDS[k]
      es == EntriesOf(fid)
  IN /\ es # <<>>
     /\ IF es[Len(es)].success
        THEN HasFile(FleetJson(fid)) /\ reportsDir[FleetJson(fid)] = es[1]
        ELSE HasFile(ErrorJson(fid))
               /\ reportsDir[ErrorJson(fid)] = es[Len(es)]

\* C20: in the monthly report, whenever the run stands between two fleets
\* or is extracting a later fleet, the file of every fleet completed so far
\* exists with that fleet's result, and no step of the run changes or
\* removes a file that exists.
C20_FilesBetweenFleets ==
  /\ [](Monthly =>
          /\ (bpc = "loop" \/ InExtraction \/ bpc = "writeFleetJson")
               => \A k \in 1..loopI : FileOfFleet(k)
          /\ bpc = "delay" => \A k \in 1..(loopI + 1) : FileOfFleet(k))
  /\ [][bpc # "exited" =>
          \A name \in DOMAIN reportsDir :
            /\ name \in DOMAIN reportsDir'
            /\ reportsDir'[name] = reportsDir[name]]_vars

C20_Witness ==
  /\ Monthly /\ bpc = "scrape" /\ loopI = 2
  /\ HasFile(FleetJson(FLEET_IDS[1])) /\ HasFile(ErrorJson(FLEET_IDS[2]))

\* ---------------------------------------------------------------- C21-C30
\* the call under view is one of the function fn
IsCall(fn) == call # NoCall /\ call.fn = fn

\* the projected end-of-year spend of the scraper for a spend after m months
ProjectedFrom(spend, m) == RMul(RDiv(spend, Num(m)), Num(12))

\* C21: the totals of the batch summary are those of the forecast computed
\* from the summed goal, the summed year-to-date spend and the elapsed
\* months of the run: total projected = (sum of ytdSpend / monthsElapsed) *
\* 12, total variance = sum of imrGoal - total projected, and the overall
\* status is over budget exactly when that projected total exceeds the
\* summed goal.
C21_RollUpFromTotals ==
  (IsCall("generateSummaryReport") /\ Len(call.out.totals) > 0)
  => LET ok == Successful(call.arg.results)
         t == call.out.totals[1]
         goal == RSum([k \in DOMAIN ok |-> ok[k].imrGoal])
         spend == RSum([k \in DOMAIN ok |-> ok[k].ytdSpend])
     IN \E k \in DOMAIN ok :
          LET projected == ProjectedFrom(spend, ok[k].monthsElapsed)
          IN /\ t.totalProjected = projected
             /\ t.totalVariance = RSub(goal, projected)
             /\ t.overBudget = RGt(projected, goal)

\* the members of an aggregateFleetData call, the main fleet first
MembersOf(c) == <<c.arg.mainFleet>> \o c.arg.subFleets

\* C22: aggregateFleetData(main, subFleets) returns as budget the sum of all
\* budgets and as ytdSpend the sum of all ytdSpend; its forecast, variance
\* and isOverBudget are the forecast functions applied to those sums (at the
\* date of the call), whatever the members' own forecasts are; with no
\* sub-fleets the values of the main fleet are returned unchanged.
C22_AggregationLaw ==
  IsCall("aggregateFleetData")
  => LET members == MembersOf(call)
         out == call.out
         budget == RSum([k \in DOMAIN members |-> members[k].budget])
         spend == RSum([k \in DOMAIN members |-> members[k].ytdSpend])
         rate == calculateAverageDailyBurnRate(spend, call.env.today)
         forecast == forecastEOYSpend(spend, rate, call.env.today)
     IN IF Len(call.arg.subFleets) = 0
        THEN /\ \A f \in DOMAIN call.arg.mainFleet :
                  out[f] = call.arg.mainFleet[f]
             /\ out.subFleets = <<>>
        ELSE /\ out.budget = budget
             /\ out.ytdSpend = spend
             /\ out.forecastedEOYSpend = forecast
             /\ out.variance = RSub(forecast, budget)
             /\ out.isOverBudget = RGt(forecast, budget)
             /\ out.subFleets = call.arg.subFleets

\* an aggregate of three fleets whose forecast is not the sum of theirs, and
\* an aggregate of a main fleet alone
C22_Witness ==
  /\ IsCall("aggregateFleetData")
  /\ Len(call.arg.subFleets) = 2
  /\ call.out.forecastedEOYSpend
       # RSum([k \in DOMAIN MembersOf(call) |->
                 MembersOf(call)[k].forecastedEOYSpend])
  /\ prev # NoCall
  /\ Len(prev.arg.subFleets) = 2

\* C23: for a run date in calendar month m the elapsed-month count is m - 1,
\* except in January, where it is 12; it is always in 1..12, never 0.
C23_MonthsElapsed ==
  IsCall("calculateMonthsElapsed")
  => LET m == call.env.today.month
     IN /\ call.out = (IF m = 1 THEN 12 ELSE m - 1)
        /\ call.out \in 1..12

\* a January run and a December run have both been counted
C23_Witness ==
  /\ IsCall("calculateMonthsElapsed")
  /\ call.env.today.month = 1
  /\ call.out = 12
  /\ prev # NoCall
  /\ prev.env.today.month = 12
  /\ prev.out = 11

\* the two relations of a record: burn rate and projection
C24_Relations ==
  /\ IsCall("scrapeCerebusComplete")
     => /\ call.out.monthsElapsed \in 1..12
        /\ call.out.monthlyBurnRate
             = RDiv(call.out.ytdSpend, Num(call.out.monthsElapsed))
        /\ call.out.projectedEOY = RMul(call.out.monthlyBurnRate, Num(12))
  /\ IsCall("projectedEOY")
     => /\ call.out.monthsElapsed \in 1..12
        /\ call.out.monthlyBurnRate
             = DDiv(call.out.ytdSpend, call.out.monthsElapsed)
        /\ call.out.projectedEOY = DMul(call.out.monthlyBurnRate, 12)

\* C24: in every record monthlyBurnRate = ytdSpend / monthsElapsed and
\* projectedEOY = monthlyBurnRate * 12 (monthsElapsed in 1..12), and in a
\* record of a January run (monthsElapsed = 12) projectedEOY equals ytdSpend
\* exactly.
C24_ProjectedExact ==
  /\ C24_Relations
  /\ (IsCall("projectedEOY") /\ call.out.monthsElapsed = 12)
     => call.out.projectedEOY = call.out.ytdSpend

\* variance = projected - budget, and over budget exactly when it is positive
VarianceLaw(projected, budget, variance, isOverBudget) ==
  /\ variance = RSub(projected, budget)
  /\ isOverBudget = RGt(variance, Num(0))

\* C26: in every forecast record, whichever path produced it (the scraper's
\* record, calculateBudgetVariance, calculateForecast, aggregateFleetData,
\* the record getFleetForecast serves), variance = projected end-of-year
\* spend - budget and isOverBudget holds exactly when variance > 0; a record
\* with isOverBudget = FALSE never has a positive variance.
C26_VarianceSign ==
  /\ IsCall("scrapeCerebusComplete")
     => /\ VarianceLaw(call.out.projectedEOY, call.out.imrGoal,
                       call.out.variance, call.out.isOverBudget)
        /\ ~call.out.isOverBudget => ~RGt(call.out.variance, Num(0))
  /\ IsCall("calculateBudgetVariance")
     => VarianceLaw(call.arg.forecastedEOYSpend, call.arg.budget,
                    call.out.variance, call.out.isOverBudget)
  /\ (IsCall("calculateForecast") \/ IsCall("aggregateFleetData"))
     => VarianceLaw(call.out.forecastedEOYSpend, call.out.budget,
                    call.out.variance, call.out.isOverBudget)
  /\ IsCall("getFleetForecast")
     => VarianceLaw(call.out.value.forecastedEOYSpend, call.out.value.budget,
                    call.out.value.variance, call.out.value.isOverBudget)

\* the functions that are handed the date or the record they work from
TakesItsDate(c) ==
  \/ c.fn = "calculateForecast" /\ c.arg.dateGiven
  \/ c.fn = "aggregateFleetData"
  \/ c.fn = "calculateBudgetVariance"

\* C27: the forecast is a function of its inputs: two calls with the same
\* arguments at the same date return the same record, and a forecast or
\* aggregation function that is handed its date or its dated records
\* returns the same record whenever it is called, since it does not read
\* the clock.
C27_Deterministic ==
  (prev # NoCall
   /\ call.fn \in {"scrapeCerebusComplete", "calculateBudgetVariance",
                   "calculateForecast", "aggregateFleetData"})
  => /\ prev.env = call.env => prev.out = call.out
     /\ TakesItsDate(call) => prev.out = call.out

\* the number a text part stands for, NaN when it is not numeric
NumberOf(number) ==
  CASE number = <<"1">> -> Num(1)
    [] number = <<"1", ".", "2">> -> Rat(12, 10)
    [] number = <<"1", ",", "0", "0", "0">> -> Num(1000)
    [] number = <<"1", "5", "0", ".", "9">> -> Rat(1509, 10)
    [] OTHER -> NaN

\* the multiplier a suffix stands for, the longest suffix first
MultiplierOf(suffix) ==
  CASE suffix \in {<<"M", "M">>, <<"m", "m">>} -> 1000000
    [] suffix = <<"B">> -> 1000000000
    [] suffix \in {<<"M">>, <<" ", "M">>} -> 1000000
    [] suffix \in {<<"K">>, <<"k">>} -> 1000
    [] OTHER -> 1

\* C28: the currency parser strips "$", thousands separators and whitespace
\* and applies the multiplier of the suffix, the longest first (MM = 10^6,
\* B = 10^9, M = 10^6, K = 10^3, none = the literal value); it returns 0,
\* and never a value that is not a number, for the empty text, "-", "N/A"
\* and every text whose part before the suffix is not numeric.
C28_CurrencyParser ==
  IsCall("parseCurrencyAmount")
  => LET number == NumberOf(call.arg.number)
     IN /\ IsFinite(call.out)
        /\ call.out = (IF IsNaN(number) THEN Num(0)
                       ELSE RMul(number, Num(MultiplierOf(call.arg.suffix))))

\* the dashboard URL in force: CERBERUS_URL, else NEXT_PUBLIC_CEREBUS_URL,
\* else the default
ConfiguredUrl(env) ==
  IF env.CERBERUS_URL # "" THEN env.CERBERUS_URL
  ELSE IF env.NEXT_PUBLIC_CEREBUS_URL # "" THEN env.NEXT_PUBLIC_CEREBUS_URL
  ELSE DefaultUrl

\* the forecast of the mock data: a main fleet of budget 500,000 with its
\* two sub-fleets of 150,000 and 100,000
IsMockForecast(f, fid) ==
  /\ f.fleetId = fid
  /\ f.budget = Num(750000)
  /\ Len(f.subFleets) = 2
  /\ f.subFleets[1].budget = Num(150000)
  /\ f.subFleets[2].budget = Num(100000)

C30_JanuaryFiscalYear ==
  IsCall("scrapeCerebusComplete")
  => LET today == call.env.today
     IN IF today.month = 1
        THEN /\ call.out.monthsElapsed = 12
             /\ call.out.fiscalYear = today.year - 1
        ELSE /\ call.out.monthsElapsed = today.month - 1
             /\ call.out.fiscalYear = today.year

\* C31: the login check reports logged-in exactly when the page holds at
\* least one Cerberus marker, whatever login-form markers it holds; with a
\* login-form marker and no Cerberus marker, and with no marker at all, it
\* reports logged-out.
C31_LoginMarkers ==
  IsCall("isLoggedIn")
  => (call.out.loggedIn <=> call.arg.cerberusPresent # {})

\* the dated directories of a GET call that hold the fleet's file as JSON text
Readable(c) ==
  IF c.arg.reports.kind # "dirs" THEN {}
  ELSE {n \in DOMAIN c.arg.reports.dirs :
          /\ Len(n) = 3
          /\ FleetJson(c.arg.id) \in DOMAIN c.arg.reports.dirs[n]
          /\ c.arg.reports.dirs[n][FleetJson(c.arg.id)].kind = "json"}

C33_SingleBrowser ==
  [][(pc = "initBrowser" /\ browser = "connected" /\ pc' = "createPage")
     => UNCHANGED <<browser, sessionStartTime>>]_vars

\* C34: when the loop of a batch run has gone through all fleet ids, the
\* results list holds one entry per fleet id, in the order of the ids, and
\* the fleets array of the written summary is that list.
C34_ResultsList ==
  (loopI = N /\ bpc = "exited")
  => /\ Len(results) = N
     /\ \A k \in 1..N : results[k].fleetId = FLEET_IDS[k]
     /\ HasFile(<<"summary.json">>)
        => reportsDir[<<"summary.json">>].fleets = results

\* C35: a forecast that getFleetForecast obtains by scraping carries the
\* scraped values: its budget is the scraped imrGoal and its ytdSpend the
\* scraped ytdSpend, whatever the number of months elapsed.
C35_ScrapedValuesKept ==
  (/\ IsCall("getFleetForecast")
   /\ call.out.scrapeCalls = 1
   /\ call.env.outcome.kind = "data")
  => /\ call.out.value.budget = call.env.outcome.data.imrGoal
     /\ call.out.value.ytdSpend = call.env.outcome.data.ytdSpend

\* after ensureAuthenticated validated the session, by a positive login
\* check or a confirmed manual login, the write of the timestamp ends the
\* call normally whether it fails or not, and the extraction goes on
WriteNotFatal ==
  pc \in {"loggedInWrite", "manualWrite"}
  => /\ pc' = "pageGoto"
     /\ result' = result
     /\ steps' = Append(steps, "ensureAuthenticated")
     /\ tsFile' \in {tsFile, now}

\* C36 as stated: a failed write of the timestamp is not fatal, and its only
\* effect is that the next ensureAuthenticated call finds no fresh timestamp
\* and performs the login check again.
C36_Original ==
  /\ [][WriteNotFatal]_vars
  /\ []((Decided /\ prevAuth.path = "validated" /\ ~prevAuth.wrote)
        => auth.checks = 1)

\* C36 amended: a failed write of the timestamp is not fatal, and the next
\* ensureAuthenticated call performs the login check again unless the file
\* still holds a fresh timestamp of an earlier validation, which it then
\* uses.
C36_Amended ==
  /\ [][WriteNotFatal]_vars
  /\ []((Decided /\ prevAuth.path = "validated" /\ ~prevAuth.wrote)
        => \/ auth.checks = 1
           \/ /\ auth.path = "cached" /\ ~auth.fault
              /\ auth.ts # NoFile /\ auth.ts <= prevAuth.validatedAt
              /\ Fresh(auth.ts, auth.enter))

\* the write failed, the extraction went on, and the next call has checked
\* the login again
C36_Witness ==
  /\ pc = "pageGoto" /\ auth.path = "loggedIn" /\ auth.checks = 1
  /\ prevAuth.path = "validated" /\ ~prevAuth.wrote
  /\ tsFile # now

====
